---- MODULE Spec2Model ----
(***************************************************************************)
(* Pioneer Analytics: the browser dashboard (app.js), the Express server   *)
(* (server.js, routes/growers.js) and the Mongoose model                   *)
(* (models/GrowerTransaction.js).                                          *)
(*                                                                         *)
(* Numbers.  JavaScript numbers are modelled as exact rationals extended   *)
(* with NaN, +Infinity and -Infinity (the results of 0/0 and x/0); the     *)
(* rounding of IEEE doubles is not modelled.  Math.sqrt is kept symbolic:  *)
(* a value q + k*sqrt(m2) is the triple [q, k, m2].                        *)
(***************************************************************************)
EXTENDS Integers, Sequences, FiniteSets, TLC

(***************************************************************************)
(* Bounds of the exploration.                                              *)
(***************************************************************************)
\* longest historical series handed to the forecast functions
MaxLen == 3

(***************************************************************************)
(* Rationals with NaN and the two infinities.                              *)
(*   [num |-> n, den |-> d], d > 0, gcd(n, d) = 1   the rational n/d       *)
(*   [num |-> 0, den |-> 0]                          NaN                   *)
(*   [num |-> 1, den |-> 0], [num |-> -1, den |-> 0] +Infinity, -Infinity  *)
(***************************************************************************)
Abs(i) == IF i < 0 THEN -i ELSE i

Sign(i) == IF i < 0 THEN -1 ELSE IF i > 0 THEN 1 ELSE 0

RECURSIVE GCD(_, _)
GCD(a, b) == IF b = 0 THEN a ELSE GCD(b, a % b)

\* n/d in lowest terms; d = 0 gives the IEEE result of the division n/0
Q(n, d) ==
    IF d = 0 THEN [num |-> Sign(n), den |-> 0]
    ELSE LET g == GCD(Abs(n), Abs(d))
             s == Sign(d)
         IN [num |-> (s * n) \div g, den |-> (s * d) \div g]

R(i) == [num |-> i, den |-> 1]

NaN == [num |-> 0, den |-> 0]

IsNaN(a) == a.num = 0 /\ a.den = 0

IsFinite(a) == a.den # 0

Add(a, b) ==
    IF a.den = 0 /\ b.den = 0
    THEN (IF a = b THEN a ELSE NaN)
    ELSE Q(a.num * b.den + b.num * a.den, a.den * b.den)

Neg(a) == [num |-> -a.num, den |-> a.den]

Sub(a, b) == Add(a, Neg(b))

Mul(a, b) == Q(a.num * b.num, a.den * b.den)

\* a / b; x/0 is +-Infinity, 0/0 is NaN
Div(a, b) == Mul(a, Q(b.den, b.num))

\* a < b, a <= b; every comparison with NaN is false
\* a/b < c/d for b, d > 0, by integer parts and then the remainders' reciprocals
RECURSIVE LtFrac(_, _, _, _)
LtFrac(a, b, c, d) ==
    IF a \div b # c \div d THEN a \div b < c \div d
    ELSE IF c % d = 0 THEN FALSE
    ELSE IF a % b = 0 THEN TRUE
    ELSE LtFrac(d, c % d, b, a % b)

Lt(a, b) ==
    /\ ~IsNaN(a)
    /\ ~IsNaN(b)
    /\ IF a.den = 0 \/ b.den = 0
       THEN (IF a.den = 0 /\ b.den = 0 THEN a.num < b.num
             ELSE IF a.den = 0 THEN a.num < 0 ELSE b.num > 0)
       ELSE LtFrac(a.num, a.den, b.num, b.den)

Leq(a, b) == ~IsNaN(a) /\ ~IsNaN(b) /\ ~Lt(b, a)

\* Math.max(0, a): NaN when a is NaN
MaxZero(a) == IF IsNaN(a) THEN NaN ELSE IF Lt(a, R(0)) THEN R(0) ELSE a

\* Math.floor
Floor(a) == IF a.den = 0 THEN a ELSE R(a.num \div a.den)

\* Math.round(a) = floor(a + 1/2)
Round(a) == Floor(Add(a, Q(1, 2)))

RECURSIVE SumSeq(_)
SumSeq(s) == IF s = <<>> THEN 0 ELSE s[1] + SumSeq(Tail(s))

\* the sum of a list of rationals, added left to right as Array.prototype.reduce does
RECURSIVE SumQ(_)
SumQ(s) == IF s = <<>> THEN R(0) ELSE Add(SumQ(SubSeq(s, 1, Len(s) - 1)), s[Len(s)])

(***************************************************************************)
(* q + k * sqrt(m2), k in {-1, 0, 1}, m2 a rational >= 0 (or NaN).         *)
(***************************************************************************)
Surd(q, k, m2) == [q |-> q, k |-> k, m2 |-> m2]

OfQ(a) == Surd(a, 0, R(0))

SurdIsNaN(x) == IsNaN(x.q) \/ (x.k # 0 /\ IsNaN(x.m2))

\* r <= x and x <= r for a rational r: r - q <= k*sqrt(m2), decided on the squares
RatLeqSurd(r, x) ==
    /\ ~IsNaN(r)
    /\ ~SurdIsNaN(x)
    /\ LET e == Sub(r, x.q)
       IN CASE x.k = 0 -> Leq(e, R(0))
            [] x.k = 1 -> Leq(e, R(0)) \/ Leq(Mul(e, e), x.m2)
            [] OTHER   -> Leq(e, R(0)) /\ Leq(x.m2, Mul(e, e))

SurdLeqRat(x, r) ==
    /\ ~IsNaN(r)
    /\ ~SurdIsNaN(x)
    /\ LET e == Sub(r, x.q)
       IN CASE x.k = 0 -> Leq(R(0), e)
            [] x.k = 1 -> Leq(R(0), e) /\ Leq(x.m2, Mul(e, e))
            [] OTHER   -> Leq(R(0), e) \/ Leq(Mul(e, e), x.m2)

\* Math.max(0, x)
SurdMaxZero(x) ==
    IF SurdIsNaN(x) THEN OfQ(NaN)
    ELSE IF SurdLeqRat(x, R(0)) THEN OfQ(R(0)) ELSE x

\* the largest integer i with i*i <= n/d   (n >= 0, d > 0)
RECURSIVE ISqrtFrom(_, _, _)
ISqrtFrom(i, n, d) ==
    IF (i + 1) * (i + 1) * d > n THEN i ELSE ISqrtFrom(i + 1, n, d)

\* Math.floor(x): the integer i with i <= x < i + 1, found next to floor(q) +- isqrt(m2)
SurdFloor(x) ==
    IF SurdIsNaN(x) THEN OfQ(NaN)
    ELSE IF x.k = 0 \/ ~IsFinite(x.q) \/ ~IsFinite(x.m2) THEN OfQ(Floor(x.q))
    ELSE LET f == x.q.num \div x.q.den
             s == ISqrtFrom(0, x.m2.num, x.m2.den)
             c == f + x.k * s
             i == CHOOSE j \in (c - 2)..(c + 2) :
                      /\ RatLeqSurd(R(j), x)
                      /\ ~RatLeqSurd(R(j + 1), x)
         IN OfQ(R(i))

\* Math.round(x) = floor(x + 1/2)
SurdRound(x) == SurdFloor(Surd(Add(x.q, Q(1, 2)), x.k, x.m2))

(***************************************************************************)
(* Forecast engine (app.js, FORECASTING TAB).                              *)
(* A series is a sequence of integers; results are rationals or surds.     *)
(***************************************************************************)
\* CONFIG.YEARS
YEARS == <<2022, 2023, 2024, 2025, 2026>>

\* the target year calculateForecast projects at
TargetYear == 2027

Col(data, f) == [i \in 1..Len(data) |-> data[i][f]]

Prefix(s, n) == SubSeq(s, 1, n)

\* x.reduce((total, xi, i) => total + xi * y[i], 0)
RECURSIVE SumXY(_, _)
SumXY(x, y) ==
    IF x = <<>> THEN 0
    ELSE SumXY(Prefix(x, Len(x) - 1), y) + x[Len(x)] * y[Len(x)]

Slope(x, y) ==
    LET n == Len(x)
        sumX == SumSeq(x)
        sumY == SumSeq(y)
        sumX2 == SumXY(x, x)
    IN Div(R(n * SumXY(x, y) - sumX * sumY), R(n * sumX2 - sumX * sumX))

\* the intercept without its division by n
InterceptUnscaled(x, y) ==
    Sub(R(SumSeq(y)), Mul(Slope(x, y), R(SumSeq(x))))

Intercept(x, y) ==
    Div(Sub(R(SumSeq(y)), Mul(Slope(x, y), R(SumSeq(x)))), R(Len(x)))

linearRegression(x, y, targetX) ==
    IF Len(x) = 0 THEN R(0)
    ELSE Add(Mul(Slope(x, y), R(targetX)), Intercept(x, y))

\* the rates of every transition whose prior value is not 0
RECURSIVE GrowthRatesNonZero(_)
GrowthRatesNonZero(data) ==
    IF Len(data) < 2 THEN <<>>
    ELSE LET n == Len(data)
             rest == GrowthRatesNonZero(Prefix(data, n - 1))
         IN IF data[n - 1] # 0
            THEN Append(rest, Q(data[n] - data[n - 1], data[n - 1]))
            ELSE rest

\* the year-over-year rates of the transitions whose prior value is > 0, in order
RECURSIVE GrowthRates(_)
GrowthRates(data) ==
    IF Len(data) < 2 THEN <<>>
    ELSE LET n == Len(data)
             rest == GrowthRates(Prefix(data, n - 1))
         IN IF data[n - 1] > 0
            THEN Append(rest, Q(data[n] - data[n - 1], data[n - 1]))
            ELSE rest

growthRateForecast(data) ==
    IF Len(data) < 2
    THEN (IF Len(data) = 0 THEN R(0) ELSE R(data[Len(data)]))
    ELSE LET growthRates == GrowthRates(data)
             avgGrowth == IF Len(growthRates) # 0
                          THEN Div(SumQ(growthRates), R(Len(growthRates)))
                          ELSE R(0)
         IN Mul(R(data[Len(data)]), Add(R(1), avgGrowth))

\* the weighted sum with the weights 0, 1, 2, ...
RECURSIVE WeightedSumFromZero(_)
WeightedSumFromZero(data) ==
    IF data = <<>> THEN 0
    ELSE WeightedSumFromZero(Prefix(data, Len(data) - 1))
             + data[Len(data)] * (Len(data) - 1)

\* data.reduce((sum, value, i) => sum + value * weights[i], 0), weights[i] = i + 1
RECURSIVE WeightedSum(_)
WeightedSum(data) ==
    IF data = <<>> THEN 0
    ELSE WeightedSum(Prefix(data, Len(data) - 1)) + data[Len(data)] * Len(data)

weightedAverageForecast(data) ==
    IF Len(data) = 0 THEN R(0)
    ELSE LET totalWeight == SumSeq([i \in 1..Len(data) |-> i])
             weightedAvg == Q(WeightedSum(data), totalWeight)
             lastValue == R(data[Len(data)])
             avgValue == Q(SumSeq(data), Len(data))
             trend == IF Lt(avgValue, lastValue) THEN Q(105, 100) ELSE Q(95, 100)
         IN Mul(weightedAvg, trend)

\* the squared differences divided by n - 1 instead of n
VarianceOfSample(data) ==
    LET mean == Q(SumSeq(data), Len(data))
        squaredDiffs == [i \in 1..Len(data) |->
                            Mul(Sub(R(data[i]), mean), Sub(R(data[i]), mean))]
    IN Div(SumQ(squaredDiffs), R(Len(data) - 1))

\* the mean of the squared differences from the mean: standardDeviation's radicand
Variance(data) ==
    LET mean == Q(SumSeq(data), Len(data))
        squaredDiffs == [i \in 1..Len(data) |->
                            Mul(Sub(R(data[i]), mean), Sub(R(data[i]), mean))]
    IN Div(SumQ(squaredDiffs), R(Len(data)))

standardDeviation(data) ==
    IF Len(data) = 0 THEN OfQ(R(0)) ELSE Surd(R(0), 1, Variance(data))

\* confidence is the level in percent: 80 for 0.80, 90 for 0.90, 95 for 0.95
getZScore(confidence) ==
    CASE confidence = 80 -> Q(128, 100)
      [] confidence = 90 -> Q(1645, 1000)
      [] confidence = 95 -> Q(196, 100)
      [] OTHER           -> Q(1645, 1000)

\* sd * z for a surd sd = sqrt(m2) and a rational z >= 0
Times(sd, z) == Surd(Mul(sd.q, z), sd.k, Mul(sd.m2, Mul(z, z)))

\* f - m and f + m for a rational f and a surd m
Minus(f, m) == Surd(Sub(f, m.q), -m.k, m.m2)

Plus(f, m) == Surd(Add(f, m.q), m.k, m.m2)

\* the method's raw projection of one column
Project(years, values, method) ==
    CASE method = "linear"   -> linearRegression(years, values, TargetYear)
      [] method = "growth"   -> growthRateForecast(values)
      [] method = "weighted" -> weightedAverageForecast(values)
      [] OTHER               -> linearRegression(years, values, TargetYear)

\* the locals of calculateForecast: the raw projections and the two margins
forecastLocals(data, method, confidence) ==
    LET revenues == Col(data, "revenue")
        growers == Col(data, "growers")
        years == Col(data, "year")
        zScore == getZScore(confidence)
    IN [forecastRevenue |-> Project(years, revenues, method),
        forecastGrowers |-> Project(years, growers, method),
        marginOfError   |-> Times(standardDeviation(revenues), zScore),
        growerMargin    |-> Times(standardDeviation(growers), zScore)]

calculateForecast(data, method, confidence) ==
    LET forecastRevenue == forecastLocals(data, method, confidence).forecastRevenue
        forecastGrowers == forecastLocals(data, method, confidence).forecastGrowers
        marginOfError == forecastLocals(data, method, confidence).marginOfError
        growerMargin == forecastLocals(data, method, confidence).growerMargin
    IN [revenue     |-> OfQ(MaxZero(forecastRevenue)),
        revenueLow  |-> SurdMaxZero(Minus(forecastRevenue, marginOfError)),
        revenueHigh |-> Plus(forecastRevenue, marginOfError),
        growers     |-> OfQ(MaxZero(Round(forecastGrowers))),
        growersLow  |-> SurdMaxZero(SurdRound(Minus(forecastGrowers, growerMargin))),
        growersHigh |-> SurdRound(Plus(forecastGrowers, growerMargin))]

(***************************************************************************)
(* Transactions.                                                           *)
(* A date is the day number 1000 * year + day-of-year of a date-only       *)
(* ISO string ("2025-01-01" is 2025001, "2025-12-31" is 2025365);          *)
(* new Date(date) is midnight UTC of that day.                             *)
(***************************************************************************)
Txn(d, inv, g, p, q, a) ==
    [date |-> d, invoice_number |-> inv, grower_name |-> g, product |-> p,
     quantity |-> q, amount |-> a]

\* CONFIG.PRODUCTS and the enum of GrowerTransactionSchema.product
PRODUCTS ==
    << "Corn Seed", "Soybean Seed", "Sorghum", "Alfalfa", "Herbicide",
       "Fungicide", "Insecticide", "Fertilizer", "Equipment", "Other" >>

\* grower names, in localeCompare order
GrowerNames ==
    << "", "Anderson", "Brown", "Clark", "constructor", "Davis", "grower_name",
       "Smith", "Smith, John" >>

NameRank(g) == CHOOSE i \in 1..Len(GrowerNames) : GrowerNames[i] = g

\* name.toLowerCase().includes(term) for the search terms of the model
NameIncludes(g, term) ==
    CASE term = ""   -> TRUE
      [] term = "br" -> g = "Brown"
      [] OTHER       -> FALSE

\* new Date(date).getFullYear(): the calendar year of midnight UTC in local time;
\* behind UTC that instant is still the evening of the previous day
GetFullYear(date, behindUTC) ==
    IF behindUTC /\ date % 1000 = 1 THEN date \div 1000 - 1 ELSE date \div 1000

\* d.filter(t => new Date(t.date).getFullYear() === year)
FilterByYear(d, year, behindUTC) ==
    LET Test(t) == GetFullYear(t.date, behindUTC) = year
    IN SelectSeq(d, Test)

\* new Set(d.map(t => t.grower_name))
GrowerSet(d) == { d[i].grower_name : i \in 1..Len(d) }

RECURSIVE SumAmount(_)
SumAmount(d) ==
    IF d = <<>> THEN 0 ELSE SumAmount(Prefix(d, Len(d) - 1)) + d[Len(d)].amount

RECURSIVE SumQuantity(_)
SumQuantity(d) ==
    IF d = <<>> THEN 0 ELSE SumQuantity(Prefix(d, Len(d) - 1)) + d[Len(d)].quantity

\* the summary with the average taken without its guard on the number of orders
calculateSummaryUnguarded(d) ==
    [totalRevenue  |-> SumAmount(d),
     totalOrders   |-> Len(d),
     uniqueGrowers |-> Cardinality(GrowerSet(d)),
     totalUnits    |-> SumQuantity(d),
     avgOrderValue |-> Q(SumAmount(d), Len(d))]

\* server.js calculateSummary
calculateSummary(d) ==
    [totalRevenue  |-> SumAmount(d),
     totalOrders   |-> Len(d),
     uniqueGrowers |-> Cardinality(GrowerSet(d)),
     totalUnits    |-> SumQuantity(d),
     avgOrderValue |-> IF Len(d) # 0 THEN Q(SumAmount(d), Len(d)) ELSE R(0)]

\* the grower names that an empty object literal {} already answers to: a
\* property inherited from Object.prototype
InheritedKeys == { "constructor" }

\* growerStats[name] / byGrower[name] of an inherited key is truthy and is no
\* statistics object: stats.products is undefined and stats.products.add(...)
\* raises a TypeError inside the forEach
GroupThrows(d) == \E i \in 1..Len(d) : d[i].grower_name \in InheritedKeys

IndexOfName(rows, g) ==
    IF \E i \in 1..Len(rows) : rows[i].name = g
    THEN CHOOSE i \in 1..Len(rows) : rows[i].name = g
    ELSE 0

\* one step of the forEach that builds growerStats / byGrower
AddToGrower(rows, t) ==
    LET i == IndexOfName(rows, t.grower_name)
        fresh == [name |-> t.grower_name, revenue |-> 0, orders |-> 0,
                  products |-> {}, firstPurchase |-> t.date,
                  lastPurchase |-> t.date]
        rs == IF i = 0 THEN Append(rows, fresh) ELSE rows
        j == IF i = 0 THEN Len(rs) ELSE i
        g == rs[j]
    IN [rs EXCEPT ![j] =
           [name |-> g.name,
            revenue |-> g.revenue + t.amount,
            orders |-> g.orders + 1,
            products |-> g.products \cup {t.product},
            firstPurchase |-> IF t.date < g.firstPurchase THEN t.date
                              ELSE g.firstPurchase,
            lastPurchase |-> IF t.date > g.lastPurchase THEN t.date
                             ELSE g.lastPurchase]]

\* the per-grower statistics of d, one row per grower in order of first appearance
RECURSIVE GroupByGrower(_)
GroupByGrower(d) ==
    IF d = <<>> THEN <<>>
    ELSE AddToGrower(GroupByGrower(Prefix(d, Len(d) - 1)), d[Len(d)])

RECURSIVE SumRevenue(_)
SumRevenue(rows) ==
    IF rows = <<>> THEN 0
    ELSE SumRevenue(Prefix(rows, Len(rows) - 1)) + rows[Len(rows)].revenue

\* the compare functions of updateGrowerTable: compare(a, b) < 0
RowBefore(sortBy, a, b) ==
    CASE sortBy = "revenue" -> b.revenue - a.revenue < 0
      [] sortBy = "orders"  -> b.orders - a.orders < 0
      [] sortBy = "name"    -> NameRank(a.name) < NameRank(b.name)
      [] OTHER              -> FALSE

\* Array.prototype.sort (stable), by insertion
RECURSIVE InsertSorted(_, _, _)
InsertSorted(sorted, x, sortBy) ==
    IF sorted = <<>> THEN <<x>>
    ELSE IF RowBefore(sortBy, x, sorted[Len(sorted)])
         THEN Append(InsertSorted(Prefix(sorted, Len(sorted) - 1), x, sortBy),
                     sorted[Len(sorted)])
         ELSE Append(sorted, x)

RECURSIVE SortRows(_, _)
SortRows(rows, sortBy) ==
    IF rows = <<>> THEN <<>>
    ELSE InsertSorted(SortRows(Prefix(rows, Len(rows) - 1), sortBy),
                      rows[Len(rows)], sortBy)

(***************************************************************************)
(* Retention: the partitions of two grower sets and the rate.              *)
(***************************************************************************)
\* the rate without its guard on the number of previous growers
RetentionRateUnguarded(returning, previous) ==
    Mul(Q(returning, previous), R(100))

\* returning / previous * 100, 0 when there is no previous grower
RetentionRate(returning, previous) ==
    IF previous # 0 THEN Mul(Q(returning, previous), R(100)) ELSE R(0)

\* Number.prototype.toFixed(1), as a number of tenths
ToFixed1(a) == Round(Mul(a, R(10)))

(***************************************************************************)
(* The historical table and the product table.                             *)
(***************************************************************************)
\* (value - prev) / prev * 100 without its guard
PercentChangeUnguarded(value, prev) == Mul(Q(value - prev, prev), R(100))

\* prev ? ((value - prev) / prev * 100) : 0
PercentChange(value, prev) ==
    IF prev # 0 THEN Mul(Q(value - prev, prev), R(100)) ELSE R(0)

\* count ? total / count : 0
Average(total, count) == IF count # 0 THEN Q(total, count) ELSE R(0)

\* total ? (part / total * 100) : 0
PercentOf(part, total) == IF total # 0 THEN Mul(Q(part, total), R(100)) ELSE R(0)

\* data.filter(d => d.product === product), unless product is 'all'
FilterByProduct(d, product) ==
    LET Test(t) == t.product = product
    IN IF product = "all" THEN d ELSE SelectSeq(d, Test)

\* updateHistoricalTable: the row of a year
HistoricalRow(year, revenue, orders, growers, prevRevenue) ==
    [year          |-> year,
     revenue       |-> revenue,
     orders        |-> orders,
     growers       |-> growers,
     avgOrderValue |-> Average(revenue, orders),
     prevRevenue   |-> prevRevenue,
     growth        |-> PercentChange(revenue, prevRevenue)]

\* updateHistoricalTable: the rows of years[i..], after a year of revenue prevRevenue
RECURSIVE HistoricalRows(_, _, _, _, _, _)
RECURSIVE HistoricalRowsFrom(_, _, _, _, _, _, _)
HistoricalRows(d, years, product, behindUTC, i, prevRevenue) ==
    IF i > Len(years) THEN <<>>
    ELSE HistoricalRowsFrom(d, years, product, behindUTC, i, prevRevenue,
             SumAmount(FilterByProduct(FilterByYear(d, years[i], behindUTC), product)))

\* the row of years[i], of revenue revenue, and the rows after it
HistoricalRowsFrom(d, years, product, behindUTC, i, prevRevenue, revenue) ==
    LET yearData == FilterByProduct(FilterByYear(d, years[i], behindUTC), product)
    IN << HistoricalRow(years[i], revenue, Len(yearData),
                        Cardinality(GrowerSet(yearData)), prevRevenue) >>
       \o HistoricalRows(d, years, product, behindUTC, i + 1, revenue)

\* updateProductTable: productStats and previousProductRevenue of one category
ProductStats(yearData, previousYearData, product) ==
    [product     |-> product,
     revenue     |-> SumAmount(FilterByProduct(yearData, product)),
     units       |-> SumQuantity(FilterByProduct(yearData, product)),
     prevRevenue |-> SumAmount(FilterByProduct(previousYearData, product))]

\* updateProductTable: the row of one category
ProductRow(p, totalRevenue) ==
    [product        |-> p.product,
     revenue        |-> p.revenue,
     units          |-> p.units,
     totalRevenue   |-> totalRevenue,
     prevRevenue    |-> p.prevRevenue,
     avgPrice       |-> Average(p.revenue, p.units),
     percentOfTotal |-> PercentOf(p.revenue, totalRevenue),
     yoyChange      |-> PercentChange(p.revenue, p.prevRevenue)]

\* the rows of the categories with revenue, largest first
ProductRowsOf(stats, totalRevenue) ==
    LET WithRevenue(p) == p.revenue > 0
        Row(p) == ProductRow(p, totalRevenue)
        RowsOf(products) == [i \in 1..Len(products) |-> Row(products[i])]
    IN RowsOf(SortRows(SelectSeq(stats, WithRevenue), "revenue"))

\* the rows for the records of the year and of the year before
ProductRows(yearData, previousYearData) ==
    LET Rows(stats) == ProductRowsOf(stats, SumRevenue(stats))
    IN Rows([i \in 1..Len(PRODUCTS) |->
                ProductStats(yearData, previousYearData, PRODUCTS[i])])

\* updateHistoricalTable(years, product)
updateHistoricalTable(d, years, product, behindUTC) ==
    HistoricalRows(d, years, product, behindUTC, 1, 0)

\* updateProductTable(year); year 0 is 'all'
updateProductTable(d, year, behindUTC) ==
    IF year = 0 THEN ProductRows(d, <<>>)
    ELSE ProductRows(FilterByYear(d, year, behindUTC), FilterByYear(d, year - 1, behindUTC))

\* createOverviewProductChart: the labels and the data of the doughnut, the
\* categories of CONFIG.PRODUCTS with revenue in state.data
createOverviewProductChart(d) ==
    LET Own(product) == LET Test(t) == t.product = product IN SelectSeq(d, Test)
        productData == [i \in 1..Len(PRODUCTS) |->
                           [product |-> PRODUCTS[i], revenue |-> SumAmount(Own(PRODUCTS[i]))]]
        Positive(p) == p.revenue > 0
    IN SelectSeq(productData, Positive)

(***************************************************************************)
(* Text.  A text is a string, read character by character.  The texts of   *)
(* the model hold no ".", no exponent and not the word Infinity, so every  *)
(* number parseFloat reads is an integer.  The text of a date is the       *)
(* numeral of its day number, "" for the empty date.                       *)
(***************************************************************************)
CharAt(s, i) == SubSeq(s, i, i)

WhiteSpace == { " ", "\t", "\n", "\r" }

RECURSIVE TrimStart(_)
TrimStart(s) ==
    IF s # "" /\ CharAt(s, 1) \in WhiteSpace
    THEN TrimStart(SubSeq(s, 2, Len(s))) ELSE s

RECURSIVE TrimEnd(_)
TrimEnd(s) ==
    IF s # "" /\ CharAt(s, Len(s)) \in WhiteSpace
    THEN TrimEnd(SubSeq(s, 1, Len(s) - 1)) ELSE s

\* String.prototype.trim
Trim(s) == TrimEnd(TrimStart(s))

\* String.prototype.includes
Includes(s, sub) ==
    \E i \in 1..(Len(s) - Len(sub) + 1) : SubSeq(s, i, i + Len(sub) - 1) = sub

UpperCase == "ABCDEFGHIJKLMNOPQRSTUVWXYZ"

LowerCase == "abcdefghijklmnopqrstuvwxyz"

LowerChar(c) ==
    IF \E i \in 1..26 : CharAt(UpperCase, i) = c
    THEN CharAt(LowerCase, CHOOSE i \in 1..26 : CharAt(UpperCase, i) = c)
    ELSE c

\* String.prototype.toLowerCase, half by half
RECURSIVE ToLowerCase(_)
ToLowerCase(s) ==
    IF Len(s) <= 1 THEN LowerChar(s)
    ELSE ToLowerCase(SubSeq(s, 1, Len(s) \div 2))
         \o ToLowerCase(SubSeq(s, Len(s) \div 2 + 1, Len(s)))

\* String.prototype.split with a separator of one character, part by part
RECURSIVE Split(_, _)
Split(s, sep) ==
    LET at == { i \in 1..Len(s) : CharAt(s, i) = sep }
    IN IF at = {} THEN << s >>
       ELSE LET first == CHOOSE i \in at : \A j \in at : i <= j
            IN << SubSeq(s, 1, first - 1) >> \o Split(SubSeq(s, first + 1, Len(s)), sep)

\* Array.prototype.join
RECURSIVE Join(_, _)
Join(parts, sep) ==
    IF parts = <<>> THEN ""
    ELSE IF Len(parts) = 1 THEN parts[1]
    ELSE parts[1] \o sep \o Join(Tail(parts), sep)

\* the loop of parseCSVLine over the rest of the line
RECURSIVE CSVLineFrom(_, _, _)
CSVLineFrom(s, current, inQuotes) ==
    IF s = "" THEN << current >>
    ELSE LET char == CharAt(s, 1)
             rest == SubSeq(s, 2, Len(s))
         IN IF char = "\"" THEN CSVLineFrom(rest, current, ~inQuotes)
            ELSE IF char = "," /\ ~inQuotes
            THEN << current >> \o CSVLineFrom(rest, "", FALSE)
            ELSE CSVLineFrom(rest, current \o char, inQuotes)

\* parseCSVLine, the same in app.js and in server.js
parseCSVLine(line) == CSVLineFrom(line, "", FALSE)

\* s.replace(/[$,]/g, ''), half by half
RECURSIVE StripMoney(_)
StripMoney(s) ==
    IF Len(s) <= 1 THEN (IF s \in { "$", "," } THEN "" ELSE s)
    ELSE StripMoney(SubSeq(s, 1, Len(s) \div 2))
         \o StripMoney(SubSeq(s, Len(s) \div 2 + 1, Len(s)))

Digits == "0123456789"

IsDigit(c) == \E i \in 1..10 : CharAt(Digits, i) = c

DigitValue(c) == (CHOOSE i \in 1..10 : CharAt(Digits, i) = c) - 1

\* the leading digits of s, read onto the number acc
RECURSIVE ReadDigits(_, _)
ReadDigits(s, acc) ==
    IF s # "" /\ IsDigit(CharAt(s, 1))
    THEN ReadDigits(SubSeq(s, 2, Len(s)), 10 * acc + DigitValue(CharAt(s, 1)))
    ELSE acc

NotANumber == [nan |-> TRUE, value |-> 0]

Number(n) == [nan |-> FALSE, value |-> n]

\* parseFloat of a text: white space, a sign, digits; NaN without a digit
parseFloat(s) ==
    LET t      == TrimStart(s)
        signed == t # "" /\ CharAt(t, 1) \in { "-", "+" }
        u      == IF signed THEN SubSeq(t, 2, Len(t)) ELSE t
    IN IF u = "" \/ ~IsDigit(CharAt(u, 1)) THEN NotANumber
       ELSE IF signed /\ CharAt(t, 1) = "-" THEN Number(0 - ReadDigits(u, 0))
       ELSE Number(ReadDigits(u, 0))

\* x || 0 for a number x
OrZero(x) == IF x.nan \/ x.value = 0 THEN 0 ELSE x.value

\* String(n) of a natural number
RECURSIVE NaturalText(_)
NaturalText(n) ==
    IF n < 10 THEN CharAt(Digits, n + 1)
    ELSE NaturalText(n \div 10) \o CharAt(Digits, (n % 10) + 1)

\* String(n) of an integer
NumberText(n) == IF n < 0 THEN "-" \o NaturalText(0 - n) ELSE NaturalText(n)

\* the date texts that are not numerals; the date they stand for is no day
OtherDateTexts == << "date" >>

\* the date a text is kept as
DateValue(s) ==
    IF s = "" THEN 0
    ELSE IF \A i \in 1..Len(s) : IsDigit(CharAt(s, i)) THEN ReadDigits(s, 0)
    ELSE 0 - (CHOOSE i \in 1..Len(OtherDateTexts) : OtherDateTexts[i] = s)

\* the text of a date
DateText(d) ==
    IF d = 0 THEN "" ELSE IF d < 0 THEN OtherDateTexts[0 - d] ELSE NaturalText(d)

(***************************************************************************)
(* CSV.                                                                    *)
(***************************************************************************)
\* text.trim().split('\n')
CSVLines(text) == Split(Trim(text), "\n")

\* the index, counted from 0, of the first line that is parsed: 1 when the first
\* line holds "date" or "invoice"
StartIndex(lines) ==
    LET firstLine == ToLowerCase(lines[1])
    IN IF Includes(firstLine, "date") \/ Includes(firstLine, "invoice") THEN 1 ELSE 0

\* line.includes('\t') ? line.split('\t') : parseCSVLine(line)
CSVValues(line) ==
    IF Includes(line, "\t") THEN Split(line, "\t") ELSE parseCSVLine(line)

\* the entry built from the values of a line
CSVEntry(values) ==
    Txn(DateValue(Trim(values[1])), Trim(values[2]), Trim(values[3]), Trim(values[4]),
        OrZero(parseFloat(values[5])), OrZero(parseFloat(StripMoney(values[6]))))

\* the entries of lines[i..], checked: with the test of the three required fields
RECURSIVE ParseFrom(_, _, _)
ParseFrom(lines, i, checked) ==
    IF i > Len(lines) THEN <<>>
    ELSE LET line   == Trim(lines[i])
             values == CSVValues(line)
             kept   == /\ line # ""
                       /\ Len(values) >= 6
                       /\ checked =>
                            /\ CSVEntry(values).date # 0
                            /\ CSVEntry(values).grower_name # ""
                            /\ CSVEntry(values).product # ""
         IN (IF kept THEN << CSVEntry(values) >> ELSE <<>>)
            \o ParseFrom(lines, i + 1, checked)

\* app.js parseCSV
parseCSV(text) == ParseFrom(CSVLines(text), StartIndex(CSVLines(text)) + 1, TRUE)

\* server.js parseCSV
parseCSVServer(text) == ParseFrom(CSVLines(text), StartIndex(CSVLines(text)) + 1, FALSE)

CSVHeader == "date,invoice_number,grower_name,product,quantity,amount"

\* headers.map(h => d[h]).join(',')
ExportRow(t) ==
    Join(<< DateText(t.date), t.invoice_number, t.grower_name, t.product,
            NumberText(t.quantity), NumberText(t.amount) >>, ",")

\* headers.map(h => d[h] || '').join(',')
GenerateRow(t) ==
    Join(<< DateText(t.date), t.invoice_number, t.grower_name, t.product,
            IF t.quantity = 0 THEN "" ELSE NumberText(t.quantity),
            IF t.amount = 0 THEN "" ELSE NumberText(t.amount) >>, ",")

\* app.js exportToCSV: the text of the file, for the records exported
exportToCSV(d) == Join(<< CSVHeader >> \o [i \in 1..Len(d) |-> ExportRow(d[i])], "\n")

\* server.js generateCSV
generateCSV(d) == Join(<< CSVHeader >> \o [i \in 1..Len(d) |-> GenerateRow(d[i])], "\n")

(***************************************************************************)
(* State.                                                                  *)
(***************************************************************************)
VARIABLES
    program,          \* which program the behaviour follows: "browser", "server",
                      \* or "engine" (the forecast functions called on their own)
    tzBehindUTC,      \* the local time zone of the program is behind UTC
    \* ---- browser (app.js)
    isAuthenticated,  \* state.isAuthenticated
    data,             \* state.data
    localStorage,     \* localStorage[CONFIG.STORAGE_KEY], parsed
    dom,              \* what the dashboard shows: statistics, chart data, tables
    pendingCSVData,   \* the records parsed from the file chosen, not yet imported
    csvFile,          \* the value of the csv-file input
    reader,           \* the texts a FileReader is reading, its onload yet to come
    pendingBulkData,  \* the records parsed from the text pasted, not yet imported
    download,         \* the file the last step handed to the user, if any
    \* ---- server (server.js, routes/growers.js, models/GrowerTransaction.js)
    mongo,            \* process.env.MONGODB_URI is set
    envAccessCode,    \* process.env.ACCESS_CODE
    inMemoryData,     \* the in-memory store
    collection,       \* the documents of the grower_transactions collection
    res,              \* the response to the latest request (status 0: none yet)
    ret,              \* the retention request in flight, between its awaits
    \* ---- forecast engine
    series,           \* the historical series handed to the forecast engine
    call              \* the last forecast-engine call, what it returned, and the
                      \* locals calculateForecast computed on the way

browserVars ==
    <<isAuthenticated, data, localStorage, dom, pendingCSVData, csvFile, reader,
      pendingBulkData, download>>

serverVars == <<mongo, envAccessCode, inMemoryData, collection, res, ret>>

engineVars == <<series, call>>

vars == <<program, tzBehindUTC, browserVars, serverVars, engineVars>>

(***************************************************************************)
(* Inputs.                                                                 *)
(***************************************************************************)
\* the bound on the records the dashboard's store is grown to by the add operations
MaxStore == 3

\* the bound on the records the server's store is grown to by POST /api/data
MaxDocs == 2

\* the transactions entered, posted and imported
Records ==
    { Txn(2025166, "INV-1", "Anderson", "Corn Seed", 2, 5),
      Txn(2025001, "INV-2", "Brown", "Herbicide", 1, 3),
      Txn(2025252, "INV-3", "constructor", "Corn Seed", 1, 4),
      Txn(2026069, "INV-4", "Anderson", "Corn Seed", 1, 7),
      Txn(2026185, "INV-5", "Brown", "Other", 3, 3),
      Txn(2026365, "INV-6", "Clark", "Widget", 0, 0) }

\* a store kept from an earlier session: growers of 2026 are Anderson, Brown, Clark,
\* growers of 2025 are Anderson, Brown, Davis
SampleStore ==
    << Txn(2025040, "S-1", "Anderson", "Corn Seed", 4, 20),
       Txn(2025100, "S-2", "Brown", "Herbicide", 2, 6),
       Txn(2025200, "S-3", "Davis", "Fertilizer", 1, 9),
       Txn(2026050, "S-4", "Brown", "Herbicide", 1, 4),
       Txn(2026120, "S-5", "Anderson", "Corn Seed", 5, 25),
       Txn(2026121, "S-6", "Clark", "Sorghum", 2, 8),
       Txn(2026300, "S-7", "Anderson", "Other", 1, 2) >>

PersistedStores == { <<>>, SampleStore }

\* the files chosen on the dashboard and sent to POST /api/upload
HeaderAndRows ==
    CSVHeader \o "\n2025166,INV-1,Anderson,Corn Seed,2,5\nsubtotal,5\n"
              \o "2026185,INV-5,Brown,Other,3,3\n"

TitleAndHeader == "Pioneer sales\n" \o CSVHeader \o "\n2025001,INV-2,Brown,Herbicide,1,3"

EmptyAndNegative == "2026100,INV-7,,,1,1\n2026069, INV-4 ,Anderson,Corn Seed,-1,\"$7\""

UnknownProduct == "2026365,INV-6,Clark,Widget,0,0\n2025001,INV-2,Brown,Herbicide,1,3"

QuotedComma == "2025252,INV-3,\"Smith, John\",Corn Seed,1,4"

NoRows == "nothing to import"

CsvTexts ==
    { HeaderAndRows, TitleAndHeader, EmptyAndNegative, UnknownProduct, QuotedComma,
      NoRows }

\* the texts pasted into the bulk area
BulkTexts == { "2025001\tINV-2\tBrown\tHerbicide\t1\t3", "  ", NoRows }

\* parseCSV and the server's parseCSV of every text of the model, computed once
ClientParse == [text \in CsvTexts \cup BulkTexts |-> parseCSV(text)]

ServerParse == [text \in CsvTexts |-> parseCSVServer(text)]

\* the options of the export-year select and the year of GET /api/export; 0 is 'all'
AllYears == 0

ExportYears == { AllYears, 2025, 2026 }

\* new Date().getFullYear()
NowYears == { 2026 }

\* the options of the grower-year select, the sort keys and the search terms
GrowerYearOptions == { 2025, 2026 }

SortKeys == { "revenue", "orders", "name" }

SearchTerms == { "", "br" }

\* the value of an unset environment variable and of an absent header
Undefined == "(undefined)"

IdleDom == [rendered |-> FALSE]

IdleRes == [op |-> "none", status |-> 0]

IdleRet == [pc |-> "idle"]

NoDownload == [saved |-> FALSE]

\* the value of the csv-file input: '' or the path of the file chosen
NoFileChosen == ""

ChosenFile == "C:/fakepath/upload.csv"

BrowserIdle ==
    /\ isAuthenticated = FALSE
    /\ data = <<>>
    /\ localStorage = <<>>
    /\ dom = IdleDom
    /\ pendingCSVData = <<>>
    /\ csvFile = NoFileChosen
    /\ reader = {}
    /\ pendingBulkData = <<>>
    /\ download = NoDownload

ServerIdle ==
    /\ mongo = FALSE
    /\ envAccessCode = Undefined
    /\ inMemoryData = <<>>
    /\ collection = <<>>
    /\ res = IdleRes
    /\ ret = IdleRet

EngineIdle ==
    /\ series = <<>>
    /\ call = [fn |-> "none"]

(***************************************************************************)
(* Browser dashboard (app.js).                                             *)
(***************************************************************************)
\* CONFIG.ACCESS_CODE and the codes typed into the login form
ACCESS_CODE == "pioneer2024"

TypedCodes == { "pioneer2024", "guess" }

filterDataByYear(d, year) == FilterByYear(d, year, tzBehindUTC)

\* the retention part of updateOverviewStats: retention-rate, toFixed(1)
updateOverviewStats(d, currentYear) ==
    LET currentGrowers == GrowerSet(filterDataByYear(d, currentYear))
        previousGrowers == GrowerSet(filterDataByYear(d, currentYear - 1))
        returningGrowers == Cardinality({ g \in currentGrowers : g \in previousGrowers })
    IN ToFixed1(RetentionRate(returningGrowers, Cardinality(previousGrowers)))

\* the statistics counted per transaction instead of per grower name
updateGrowerStatsPerTransaction(d, year) ==
    LET currentYearData == filterDataByYear(d, year)
        previousYearData == filterDataByYear(d, year - 1)
        currentGrowers == GrowerSet(currentYearData)
        previousGrowers == GrowerSet(previousYearData)
        IsNew(t) == t.grower_name \notin previousGrowers
        IsReturning(t) == t.grower_name \in previousGrowers
        IsLost(t) == t.grower_name \notin currentGrowers
        returningGrowers == Len(SelectSeq(currentYearData, IsReturning))
    IN [newGrowers       |-> Len(SelectSeq(currentYearData, IsNew)),
        returningGrowers |-> returningGrowers,
        lostGrowers      |-> Len(SelectSeq(previousYearData, IsLost)),
        growerRetention  |->
            ToFixed1(RetentionRate(returningGrowers, Cardinality(previousGrowers)))]

updateGrowerStats(d, year) ==
    LET currentGrowers == GrowerSet(filterDataByYear(d, year))
        previousGrowers == GrowerSet(filterDataByYear(d, year - 1))
        newGrowers == Cardinality({ g \in currentGrowers : g \notin previousGrowers })
        returningGrowers == Cardinality({ g \in currentGrowers : g \in previousGrowers })
        lostGrowers == Cardinality({ g \in previousGrowers : g \notin currentGrowers })
    IN [newGrowers       |-> newGrowers,
        returningGrowers |-> returningGrowers,
        lostGrowers      |-> lostGrowers,
        growerRetention  |->
            ToFixed1(RetentionRate(returningGrowers, Cardinality(previousGrowers)))]

\* the retention trend, had every year been compared with the first year
createRetentionTrendChartFromFirstYear(d) ==
    [index \in 1..Len(YEARS) |->
        IF index = 1 THEN R(0)
        ELSE LET currentGrowers == GrowerSet(filterDataByYear(d, YEARS[index]))
                 previousGrowers == GrowerSet(filterDataByYear(d, YEARS[1]))
                 returning == Cardinality({ g \in currentGrowers : g \in previousGrowers })
             IN RetentionRate(returning, Cardinality(previousGrowers))]

\* the data of the retention trend chart: one rate per year of CONFIG.YEARS
createRetentionTrendChart(d) ==
    [index \in 1..Len(YEARS) |->
        IF index = 1 THEN R(0)
        ELSE LET currentGrowers == GrowerSet(filterDataByYear(d, YEARS[index]))
                 previousGrowers == GrowerSet(filterDataByYear(d, YEARS[index] - 1))
                 returning == Cardinality({ g \in currentGrowers : g \in previousGrowers })
             IN RetentionRate(returning, Cardinality(previousGrowers))]

\* the orders the elements of a sequence can be put in
Orderings(d) ==
    { [i \in 1..Len(d) |-> d[p[i]]] :
        p \in { q \in [1..Len(d) -> 1..Len(d)] :
                  \A i, j \in 1..Len(d) : q[i] = q[j] => i = j } }

\* Array.prototype.slice(0, count)
Slice(s, count) ==
    IF count >= 0 THEN SubSeq(s, 1, IF count < Len(s) THEN count ELSE Len(s))
    ELSE SubSeq(s, 1, IF Len(s) + count > 0 THEN Len(s) + count ELSE 0)

\* one step of growerRevenue[d.grower_name] = (growerRevenue[d.grower_name] || 0)
\* + d.amount.  For an inherited key the value read is a function, and the sum
\* is a text: text marks an entry whose value is no number.
AddRevenue(entries, t) ==
    LET i == IndexOfName(entries, t.grower_name)
    IN IF i = 0
       THEN Append(entries,
                   IF t.grower_name \in InheritedKeys
                   THEN [name |-> t.grower_name, revenue |-> 0, text |-> TRUE]
                   ELSE [name |-> t.grower_name, revenue |-> t.amount, text |-> FALSE])
       ELSE IF entries[i].text THEN entries
       ELSE [entries EXCEPT ![i].revenue = @ + t.amount]

\* Object.entries(growerRevenue), in order of first appearance
RECURSIVE GrowerRevenue(_)
GrowerRevenue(d) ==
    IF d = <<>> THEN <<>>
    ELSE AddRevenue(GrowerRevenue(Prefix(d, Len(d) - 1)), d[Len(d)])

\* the number of growers the chart shows
TopChartCount == 10

\* createTopGrowersChart: the charts it can draw.  b[1] - a[1] is NaN, read as 0,
\* when a value is a text; the compare function is then consistent only when the
\* numbers are all equal, and otherwise the order sort leaves is up to the engine.
createTopGrowersChart(d, year) ==
    LET entries == GrowerRevenue(filterDataByYear(d, year))
        numbers == { entries[i].revenue : i \in { j \in 1..Len(entries) : ~entries[j].text } }
    IN IF \A i \in 1..Len(entries) : ~entries[i].text
       THEN { Slice(SortRows(entries, "revenue"), TopChartCount) }
       ELSE IF Cardinality(numbers) <= 1 THEN { Slice(entries, TopChartCount) }
       ELSE { Slice(sorted, TopChartCount) : sorted \in Orderings(entries) }

\* growerStats of updateGrowerTable, before the search filter and the sort
growerStats(d, year) == GroupByGrower(filterDataByYear(d, year))

\* the rows of the grower table; shown is what tbody holds, and keeps holding
\* when the forEach raises
updateGrowerTable(d, year, sortBy, searchTerm, shown) ==
    LET previousYearGrowers == GrowerSet(filterDataByYear(d, year - 1))
        Matches(g) == NameIncludes(g.name, searchTerm)
        growers == SortRows(SelectSeq(growerStats(d, year), Matches), sortBy)
    IN IF GroupThrows(filterDataByYear(d, year)) THEN shown
       ELSE [i \in 1..Len(growers) |->
                [name          |-> growers[i].name,
                 revenue       |-> growers[i].revenue,
                 orders        |-> growers[i].orders,
                 products      |-> Cardinality(growers[i].products),
                 firstPurchase |-> growers[i].firstPurchase,
                 lastPurchase  |-> growers[i].lastPurchase,
                 status        |-> IF growers[i].name \in previousYearGrowers
                                   THEN "Returning" ELSE "New"]]

\* updateGrowerAnalysis: what it writes for the filter values read from the page;
\* threw: updateGrowerTable, its last call, raised
updateGrowerAnalysis(d, year, sortBy, searchTerm, shown) ==
    [growerYear     |-> year,
     growerSort     |-> sortBy,
     growerSearch   |-> searchTerm,
     growerStats    |-> updateGrowerStats(d, year),
     retentionTrend |-> createRetentionTrendChart(d),
     growerTable    |-> updateGrowerTable(d, year, sortBy, searchTerm, shown),
     threw          |-> GroupThrows(filterDataByYear(d, year))]

\* initializeAllCharts: the whole page for store d
initializeAllCharts(d, currentYear, year, sortBy, searchTerm, shown) ==
    [rendered      |-> TRUE,
     currentYear   |-> currentYear,
     retentionRate |-> updateOverviewStats(d, currentYear),
     growers       |-> updateGrowerAnalysis(d, year, sortBy, searchTerm, shown)]

\* showDashboard's first initializeAllCharts: the selects hold their initial
\* options and the table body is empty
FirstRender(d) ==
    \E now \in NowYears, year \in GrowerYearOptions,
       sortBy \in SortKeys, searchTerm \in SearchTerms :
        dom' = initializeAllCharts(d, now, year, sortBy, searchTerm, <<>>)

\* refreshAllCharts: the filter values are read from the page, where the last
\* render left them
RefreshAllCharts(d) ==
    \E now \in NowYears :
        dom' = initializeAllCharts(d, now, dom.growers.growerYear,
                                   dom.growers.growerSort, dom.growers.growerSearch,
                                   dom.growers.growerTable)

BrowserInit ==
    /\ program = "browser"
    /\ tzBehindUTC \in BOOLEAN
    /\ isAuthenticated = FALSE
    /\ data = <<>>
    /\ localStorage \in PersistedStores
    /\ dom = IdleDom
    /\ pendingCSVData = <<>>
    /\ csvFile = NoFileChosen
    /\ reader = {}
    /\ pendingBulkData = <<>>
    /\ download = NoDownload
    /\ ServerIdle
    /\ EngineIdle

\* handleLogin, with showDashboard: loadData, initializeAllCharts
HandleLogin ==
    /\ program = "browser"
    /\ ~isAuthenticated
    /\ \E code \in TypedCodes :
        IF code = ACCESS_CODE
        THEN /\ isAuthenticated' = TRUE
             /\ data' = localStorage
             /\ FirstRender(localStorage)
        ELSE UNCHANGED <<isAuthenticated, data, dom>>
    /\ download' = NoDownload
    /\ UNCHANGED <<program, tzBehindUTC, csvFile, reader,
                   localStorage, pendingCSVData, pendingBulkData,
                   serverVars, engineVars>>

\* handleManualEntry: addDataEntry (push, saveData) and refreshAllCharts
HandleManualEntry ==
    /\ program = "browser"
    /\ isAuthenticated
    /\ Len(data) < MaxStore
    /\ \E entry \in Records :
        /\ data' = Append(data, entry)
        /\ localStorage' = Append(data, entry)
        /\ RefreshAllCharts(Append(data, entry))
    /\ download' = NoDownload
    /\ UNCHANGED <<program, tzBehindUTC, csvFile, reader,
                   isAuthenticated, pendingCSVData, pendingBulkData,
                   serverVars, engineVars>>

\* clearAllData, confirmed or not
ClearAllData ==
    /\ program = "browser"
    /\ isAuthenticated
    /\ \E confirmed \in BOOLEAN :
        IF confirmed
        THEN /\ data' = <<>>
             /\ localStorage' = <<>>
             /\ RefreshAllCharts(<<>>)
        ELSE UNCHANGED <<data, localStorage, dom>>
    /\ download' = NoDownload
    /\ UNCHANGED <<program, tzBehindUTC, csvFile, reader,
                   isAuthenticated, pendingCSVData, pendingBulkData,
                   serverVars, engineVars>>

\* the click on apply-grower-filter
ApplyGrowerFilter ==
    /\ program = "browser"
    /\ isAuthenticated
    /\ UNCHANGED <<program, tzBehindUTC, csvFile, reader,
                   isAuthenticated, data, localStorage,
                   pendingCSVData, pendingBulkData, serverVars, engineVars>>
    /\ download' = NoDownload
    /\ \E year \in GrowerYearOptions, sortBy \in SortKeys, searchTerm \in SearchTerms :
        dom' = [dom EXCEPT !.growers =
                   updateGrowerAnalysis(data, year, sortBy, searchTerm,
                                        dom.growers.growerTable)]

\* the change of the csv-file input: handleCSVUpload with the file chosen, as far
\* as reader.readAsText(file).  One FileReader reads at a time.
HandleCSVUpload ==
    /\ program = "browser"
    /\ isAuthenticated
    /\ reader = {}
    /\ \E text \in CsvTexts : reader' = { text }
    /\ csvFile' = ChosenFile
    /\ download' = NoDownload
    /\ UNCHANGED <<program, tzBehindUTC, isAuthenticated, data, localStorage, dom,
                   pendingCSVData, pendingBulkData, serverVars, engineVars>>

\* reader.onload: the file has been read
ReaderOnload ==
    /\ program = "browser"
    /\ isAuthenticated
    /\ \E text \in reader :
        /\ pendingCSVData' = ClientParse[text]
        /\ reader' = reader \ { text }
    /\ download' = NoDownload
    /\ UNCHANGED <<program, tzBehindUTC, isAuthenticated, data, localStorage, dom,
                   csvFile, pendingBulkData, serverVars, engineVars>>

\* importCSVData: addDataEntry for every pending record, then refreshAllCharts
ImportCSVData ==
    /\ program = "browser"
    /\ isAuthenticated
    /\ pendingCSVData # <<>>
    /\ Len(data) + Len(pendingCSVData) <= MaxStore
    /\ data' = data \o pendingCSVData
    /\ localStorage' = data \o pendingCSVData
    /\ pendingCSVData' = <<>>
    /\ csvFile' = NoFileChosen
    /\ RefreshAllCharts(data \o pendingCSVData)
    /\ download' = NoDownload
    /\ UNCHANGED <<program, tzBehindUTC, isAuthenticated, reader, pendingBulkData,
                   serverVars, engineVars>>

\* cancelCSVImport
CancelCSVImport ==
    /\ program = "browser"
    /\ isAuthenticated
    /\ pendingCSVData' = <<>>
    /\ csvFile' = NoFileChosen
    /\ download' = NoDownload
    /\ UNCHANGED <<program, tzBehindUTC, isAuthenticated, data, localStorage, dom,
                   reader, pendingBulkData, serverVars, engineVars>>

\* parseBulkData
ParseBulkData ==
    /\ program = "browser"
    /\ isAuthenticated
    /\ \E text \in BulkTexts :
        IF Trim(text) = "" THEN UNCHANGED pendingBulkData
        ELSE pendingBulkData' = ClientParse[text]
    /\ download' = NoDownload
    /\ UNCHANGED <<program, tzBehindUTC, csvFile, reader,
                   isAuthenticated, data, localStorage, dom,
                   pendingCSVData, serverVars, engineVars>>

\* importBulkData
ImportBulkData ==
    /\ program = "browser"
    /\ isAuthenticated
    /\ pendingBulkData # <<>>
    /\ Len(data) + Len(pendingBulkData) <= MaxStore
    /\ data' = data \o pendingBulkData
    /\ localStorage' = data \o pendingBulkData
    /\ pendingBulkData' = <<>>
    /\ RefreshAllCharts(data \o pendingBulkData)
    /\ download' = NoDownload
    /\ UNCHANGED <<program, tzBehindUTC, csvFile, reader, isAuthenticated, pendingCSVData,
                   serverVars, engineVars>>

\* exportToCSV, for the year selected
ExportToCSV ==
    /\ program = "browser"
    /\ isAuthenticated
    /\ \E year \in ExportYears :
        LET dataToExport == IF year = AllYears THEN data
                            ELSE FilterByYear(data, year, tzBehindUTC)
        IN download' = IF dataToExport = <<>> THEN NoDownload
                       ELSE [saved |-> TRUE, year |-> year, records |-> dataToExport,
                             csv |-> exportToCSV(dataToExport)]
    /\ UNCHANGED <<program, tzBehindUTC, csvFile, reader,
                   isAuthenticated, data, localStorage, dom,
                   pendingCSVData, pendingBulkData, serverVars, engineVars>>

BrowserNext ==
    \/ HandleLogin
    \/ HandleManualEntry
    \/ ClearAllData
    \/ ApplyGrowerFilter

(***************************************************************************)
(* Server (server.js, routes/growers.js, models/GrowerTransaction.js).     *)
(***************************************************************************)
\* the X-Access-Code headers sent: the built-in code, another string, no header
AccessCodes == { "pioneer2024", "guess", Undefined }

\* the authenticate middleware:
\* accessCode === process.env.ACCESS_CODE || accessCode === 'pioneer2024'
authenticate(code) == code = envAccessCode \/ code = "pioneer2024"

Unauthorized(op) == [op |-> op, status |-> 401]

\* the request is accepted and not answered yet
Pending(op) == [op |-> op, status |-> 0]

\* the request bodies posted: the records, and one without its product
Bodies == Records \cup { Txn(2026100, "INV-7", "Davis", "", 1, 1) }

\* GrowerTransactionSchema: a date that is a day, the required fields, the product
\* enum, min 0
ValidDocument(r) ==
    /\ r.date > 0
    /\ r.grower_name # ""
    /\ r.product \in { PRODUCTS[i] : i \in 1..Len(PRODUCTS) }
    /\ r.quantity >= 0
    /\ r.amount >= 0

\* the store a data handler reads: GrowerTransaction.find() or inMemoryData
StoreRead == IF mongo THEN collection ELSE inMemoryData

Dec31(year) == year * 1000 + (IF year % 4 = 0 THEN 366 ELSE 365)

\* { date: { $gte: new Date(`${year}-01-01`), $lte: new Date(`${year}-12-31`) } }
InYearRange(t, year) == t.date >= year * 1000 + 1 /\ t.date <= Dec31(year)

FindByYear(docs, year) ==
    LET Test(t) == InYearRange(t, year)
    IN SelectSeq(docs, Test)

\* GrowerTransaction.getSummaryByYear: the group of the documents matched, or the
\* record of zeros when the aggregation returns no group
getSummaryByYear(docs, year) ==
    IF FindByYear(docs, year) = <<>>
    THEN [totalRevenue |-> 0, totalQuantity |-> 0, totalOrders |-> 0, uniqueGrowers |-> 0]
    ELSE [totalRevenue  |-> SumAmount(FindByYear(docs, year)),
          totalQuantity |-> SumQuantity(FindByYear(docs, year)),
          totalOrders   |-> Len(FindByYear(docs, year)),
          uniqueGrowers |-> Cardinality(GrowerSet(FindByYear(docs, year)))]

\* the $group and $project stages of getGrowerSummary: the row of grower g
GrowerGroup(docs, g) ==
    LET Test(t) == t.grower_name = g
        mine == SelectSeq(docs, Test)
        dates == { mine[i].date : i \in 1..Len(mine) }
    IN [grower_name   |-> g,
        totalRevenue  |-> SumAmount(mine),
        orderCount    |-> Len(mine),
        products      |-> { mine[i].product : i \in 1..Len(mine) },
        firstPurchase |-> CHOOSE x \in dates : \A y \in dates : x <= y,
        lastPurchase  |-> CHOOSE x \in dates : \A y \in dates : x >= y]

\* GrowerTransaction.getGrowerSummary(year), year 0 for null: the orders in which
\* { $sort: { totalRevenue: -1 } } can hand the rows over
getGrowerSummary(docs, year) ==
    LET matched == IF year = 0 THEN docs ELSE FindByYear(docs, year)
        groups == { GrowerGroup(matched, g) : g \in GrowerSet(matched) }
        n == Cardinality(groups)
    IN { s \in [1..n -> groups] :
           /\ \A i, j \in 1..n : s[i] = s[j] => i = j
           /\ \A i \in 1..(n - 1) : s[i].totalRevenue >= s[i + 1].totalRevenue }

\* parseInt of a text: the texts of the model hold no "."
parseInt(s) == parseFloat(s)

\* GET /api/growers/top/:count: the lists it can answer with;
\* count = parseInt(req.params.count) || 10
TopGrowers(docs, count, year) ==
    LET n == IF OrZero(parseInt(count)) = 0 THEN 10 ELSE OrZero(parseInt(count))
    IN { Slice(growers, n) : growers \in getGrowerSummary(docs, year) }

\* GET /api/analytics/by-product: byProduct, an object keyed by product.  A
\* product that names a property every object inherits finds that property in
\* place of an entry, and gets no key of its own.
ByProduct(docs) ==
    LET Own(product) == LET Test(t) == t.product = product IN SelectSeq(docs, Test)
        keys == { docs[i].product : i \in 1..Len(docs) } \ InheritedKeys
    IN [product \in keys |->
           [revenue  |-> SumAmount(Own(product)),
            quantity |-> SumQuantity(Own(product)),
            orders   |-> Len(Own(product))]]

\* GrowerTransaction.distinct('grower_name', { date: ... })
DistinctGrowers(docs, year) == GrowerSet(FindByYear(docs, year))

\* an entry that reports every grower of the previous year as lost
RetentionEntryLostAll(currentYear, currentGrowers, previousGrowers) ==
    LET returning == { g \in currentGrowers : g \in previousGrowers }
    IN [year             |-> currentYear,
        totalGrowers     |-> Cardinality(currentGrowers),
        returningGrowers |-> Cardinality(returning),
        newGrowers       |-> Cardinality(currentGrowers) - Cardinality(returning),
        lostGrowers      |-> Cardinality(previousGrowers),
        previousGrowers  |-> Cardinality(previousGrowers),
        retentionRate    |-> R(0)]

\* one element of retentionData; previousGrowers, the size of the second query's
\* answer, is kept beside the fields the response carries
RetentionEntry(currentYear, currentGrowers, previousGrowers) ==
    LET returning == { g \in currentGrowers : g \in previousGrowers }
        newGrowers == { g \in currentGrowers : g \notin previousGrowers }
        lost == { g \in previousGrowers : g \notin currentGrowers }
    IN [year             |-> currentYear,
        totalGrowers     |-> Cardinality(currentGrowers),
        returningGrowers |-> Cardinality(returning),
        newGrowers       |-> Cardinality(newGrowers),
        lostGrowers      |-> Cardinality(lost),
        previousGrowers  |-> Cardinality(previousGrowers),
        retentionRate    |->
            IF Cardinality(previousGrowers) > 0
            THEN ToFixed1(Mul(Q(Cardinality(returning), Cardinality(previousGrowers)),
                              R(100)))
            ELSE R(0)]

ServerInit ==
    /\ program = "server"
    /\ mongo \in BOOLEAN
    /\ envAccessCode \in { Undefined, "guess" }
    \* the handlers read local time only when they filter inMemoryData by year
    /\ tzBehindUTC \in (IF mongo THEN { FALSE } ELSE BOOLEAN)
    /\ inMemoryData = <<>>
    /\ collection \in (IF mongo THEN PersistedStores ELSE { <<>> })
    /\ res = IdleRes
    /\ ret = IdleRet
    /\ BrowserIdle
    /\ EngineIdle

ServerFrame ==
    UNCHANGED <<program, tzBehindUTC, browserVars, engineVars, mongo, envAccessCode>>

\* the body has its required fields, and in MongoDB mode passes the schema
Accepted(body) ==
    /\ ~(body.date = 0 \/ body.grower_name = "" \/ body.product = "")
    /\ mongo => ValidDocument(body)

\* POST /api/data.  A request that is refused changes nothing but res: it is
\* followed only while no retention request is in flight.
PostDataWith(code) ==
    /\ program = "server"
    /\ Len(StoreRead) < MaxDocs
    /\ \E body \in Bodies :
        /\ ret = IdleRet \/ (authenticate(code) /\ Accepted(body))
        /\ IF ~authenticate(code)
           THEN /\ res' = Unauthorized("POST /api/data")
                /\ UNCHANGED <<inMemoryData, collection>>
           ELSE IF body.date = 0 \/ body.grower_name = "" \/ body.product = ""
           THEN /\ res' = [op |-> "POST /api/data", status |-> 400]
                /\ UNCHANGED <<inMemoryData, collection>>
           ELSE IF mongo
           THEN IF ValidDocument(body)
                THEN /\ collection' = Append(collection, body)
                     /\ res' = [op |-> "POST /api/data", status |-> 200]
                     /\ UNCHANGED inMemoryData
                ELSE /\ res' = [op |-> "POST /api/data", status |-> 500]
                     /\ UNCHANGED <<inMemoryData, collection>>
           ELSE /\ inMemoryData' = Append(inMemoryData, body)
                /\ res' = [op |-> "POST /api/data", status |-> 200]
                /\ UNCHANGED collection
    /\ UNCHANGED ret
    /\ ServerFrame

PostData == \E code \in AccessCodes : PostDataWith(code)

\* DELETE /api/data
DeleteDataWith(code) ==
    /\ program = "server"
    /\ ret = IdleRet \/ authenticate(code)
    /\ IF ~authenticate(code)
       THEN /\ res' = Unauthorized("DELETE /api/data")
            /\ UNCHANGED <<inMemoryData, collection>>
       ELSE /\ res' = [op |-> "DELETE /api/data", status |-> 200]
            /\ IF mongo
               THEN collection' = <<>> /\ UNCHANGED inMemoryData
               ELSE inMemoryData' = <<>> /\ UNCHANGED collection
    /\ UNCHANGED ret
    /\ ServerFrame

DeleteData == \E code \in AccessCodes : DeleteDataWith(code)

\* The read handlers below answer from one read of the store and change nothing
\* but res, so they are followed only while no retention request is in flight.

\* Array.prototype.reverse
Reversed(d) == [i \in 1..Len(d) |-> d[Len(d) + 1 - i]]

\* the summary handler, had it reversed the array it reads (data.reverse())
GetSummaryReversingStore ==
    /\ program = "server"
    /\ ret = IdleRet
    /\ \E code \in AccessCodes :
        /\ res' = IF ~authenticate(code) THEN Unauthorized("GET /api/analytics/summary")
                  ELSE [op |-> "GET /api/analytics/summary", status |-> 200,
                        summary |-> calculateSummary(StoreRead)]
        /\ inMemoryData' = IF authenticate(code) THEN Reversed(inMemoryData)
                           ELSE inMemoryData
    /\ UNCHANGED <<collection, ret>>
    /\ ServerFrame

\* GET /api/analytics/summary
GetSummaryWith(code) ==
    /\ program = "server"
    /\ ret = IdleRet
    /\ res' = IF ~authenticate(code) THEN Unauthorized("GET /api/analytics/summary")
              ELSE [op |-> "GET /api/analytics/summary", status |-> 200,
                    summary |-> calculateSummary(StoreRead)]
    /\ UNCHANGED <<inMemoryData, collection, ret>>
    /\ ServerFrame

GetSummary == \E code \in AccessCodes : GetSummaryWith(code)

\* GET /api/analytics/by-year/:year
GetByYearWith(code) ==
    /\ program = "server"
    /\ ret = IdleRet
    /\ \E year \in GrowerYearOptions :
        res' = IF ~authenticate(code) THEN Unauthorized("GET /api/analytics/by-year")
               ELSE [op |-> "GET /api/analytics/by-year", status |-> 200,
                     year |-> year,
                     summary |-> calculateSummary(
                         IF mongo THEN FindByYear(collection, year)
                         ELSE FilterByYear(inMemoryData, year, tzBehindUTC))]
    /\ UNCHANGED <<inMemoryData, collection, ret>>
    /\ ServerFrame

GetByYear == \E code \in AccessCodes : GetByYearWith(code)

\* GET /api/analytics/by-grower
GetByGrowerWith(code) ==
    /\ program = "server"
    /\ ret = IdleRet
    /\ res' = IF ~authenticate(code) THEN Unauthorized("GET /api/analytics/by-grower")
              ELSE IF GroupThrows(StoreRead)
              THEN [op |-> "GET /api/analytics/by-grower", status |-> 500]
              ELSE [op |-> "GET /api/analytics/by-grower", status |-> 200,
                    growers |-> GroupByGrower(StoreRead)]
    /\ UNCHANGED <<inMemoryData, collection, ret>>
    /\ ServerFrame

GetByGrower == \E code \in AccessCodes : GetByGrowerWith(code)

\* GET /api/growers/retention/analysis, refused or failed: no access code, or no
\* database to answer the first query
RetentionRefusedWith(code) ==
    /\ program = "server"
    /\ ret = IdleRet
    /\ ~authenticate(code) \/ ~mongo
    /\ res' = IF ~authenticate(code)
              THEN Unauthorized("GET /api/growers/retention/analysis")
              ELSE [op |-> "GET /api/growers/retention/analysis", status |-> 500]
    /\ UNCHANGED <<inMemoryData, collection, ret>>
    /\ ServerFrame

RetentionRefused == \E code \in AccessCodes : RetentionRefusedWith(code)

\* GET /api/growers/retention/analysis: the request is accepted and the first
\* distinct query, for years[1], is answered
RetentionStart ==
    /\ program = "server"
    /\ ret = IdleRet
    /\ mongo
    /\ ret' = [pc |-> "previous", i |-> 2,
               currentGrowers |-> DistinctGrowers(collection, YEARS[2]),
               retentionData |-> <<>>]
    /\ res' = Pending("GET /api/growers/retention/analysis")
    /\ UNCHANGED <<inMemoryData, collection>>
    /\ ServerFrame

\* the distinct query for the current year of iteration i is answered
RetentionCurrent ==
    /\ program = "server"
    /\ ret.pc = "current"
    /\ ret' = [pc |-> "previous", i |-> ret.i,
               currentGrowers |-> DistinctGrowers(collection, YEARS[ret.i]),
               retentionData |-> ret.retentionData]
    /\ UNCHANGED <<inMemoryData, collection, res>>
    /\ ServerFrame

\* the distinct query for the previous year is answered: the entry is pushed, and
\* the loop goes on or the response is sent
RetentionPrevious ==
    /\ program = "server"
    /\ ret.pc = "previous"
    /\ LET previousGrowers == DistinctGrowers(collection, YEARS[ret.i - 1])
           retentionData == Append(ret.retentionData,
               RetentionEntry(YEARS[ret.i], ret.currentGrowers, previousGrowers))
       IN IF ret.i < Len(YEARS)
          THEN /\ ret' = [pc |-> "current", i |-> ret.i + 1,
                          currentGrowers |-> {},
                          retentionData |-> retentionData]
               /\ UNCHANGED res
          ELSE /\ ret' = IdleRet
               /\ res' = [op |-> "GET /api/growers/retention/analysis",
                          status |-> 200, retention |-> retentionData]
    /\ UNCHANGED <<inMemoryData, collection>>
    /\ ServerFrame

\* the request of POST /api/upload without a file
NoFile == Undefined

\* POST /api/upload: every record of the file is stored, or none
PostUploadWith(code) ==
    /\ program = "server"
    /\ \E file \in CsvTexts \cup { NoFile } :
        LET records == IF file = NoFile THEN <<>> ELSE ServerParse[file]
            answer(status) == [op |-> "POST /api/upload", status |-> status,
                               file |-> file]
        IN /\ Len(StoreRead) + Len(records) <= MaxDocs
           /\ IF ~authenticate(code)
              THEN /\ res' = Unauthorized("POST /api/upload")
                   /\ UNCHANGED <<inMemoryData, collection>>
              ELSE IF file = NoFile \/ records = <<>>
              THEN /\ res' = answer(400)
                   /\ UNCHANGED <<inMemoryData, collection>>
              ELSE IF mongo
              THEN IF \A i \in 1..Len(records) : ValidDocument(records[i])
                   THEN /\ collection' = collection \o records
                        /\ res' = answer(200)
                        /\ UNCHANGED inMemoryData
                   ELSE /\ res' = answer(500)
                        /\ UNCHANGED <<inMemoryData, collection>>
              ELSE /\ inMemoryData' = inMemoryData \o records
                   /\ res' = answer(200)
                   /\ UNCHANGED collection
    /\ UNCHANGED ret
    /\ ServerFrame

PostUpload == \E code \in AccessCodes : PostUploadWith(code)

\* GET /api/export
GetExportWith(code) ==
    /\ program = "server"
    /\ ret = IdleRet
    /\ \E year \in ExportYears :
        LET d == IF year = AllYears THEN StoreRead
                 ELSE IF mongo THEN FindByYear(collection, year)
                 ELSE FilterByYear(inMemoryData, year, tzBehindUTC)
        IN res' = IF ~authenticate(code) THEN Unauthorized("GET /api/export")
                  ELSE [op |-> "GET /api/export", status |-> 200, year |-> year,
                        records |-> d, body |-> generateCSV(d)]
    /\ UNCHANGED <<inMemoryData, collection, ret>>
    /\ ServerFrame

GetExport == \E code \in AccessCodes : GetExportWith(code)

ServerNext ==
    \/ PostData
    \/ DeleteData
    \/ GetSummary
    \/ GetByYear
    \/ GetByGrower
    \/ GetExport
    \/ RetentionRefused
    \/ RetentionStart
    \/ RetentionCurrent
    \/ RetentionPrevious

(***************************************************************************)
(* The dashboard and the server share no state: a behaviour follows one.   *)
(***************************************************************************)
Init == BrowserInit \/ ServerInit

Next == BrowserNext \/ ServerNext

Spec == Init /\ [][Next]_vars

(***************************************************************************)
(* Ingestion: the paths by which records enter and leave the two stores.   *)
(* The dashboard is open, after a login on an empty store; the server has  *)
(* started on an empty store.                                              *)
(***************************************************************************)
IngestInit ==
    \/ /\ program = "browser"
       /\ tzBehindUTC = FALSE
       /\ isAuthenticated = TRUE
       /\ data = <<>>
       /\ localStorage = <<>>
       /\ dom = initializeAllCharts(<<>>, 2026, 2026, "revenue", "", <<>>)
       /\ pendingCSVData = <<>>
       /\ csvFile = NoFileChosen
       /\ reader = {}
       /\ pendingBulkData = <<>>
       /\ download = NoDownload
       /\ ServerIdle
       /\ EngineIdle
    \/ /\ ServerInit
       /\ ~tzBehindUTC
       /\ collection = <<>>

IngestNext ==
    \/ HandleManualEntry
    \/ HandleCSVUpload
    \/ ReaderOnload
    \/ ImportCSVData
    \/ CancelCSVImport
    \/ ParseBulkData
    \/ ImportBulkData
    \/ ExportToCSV
    \/ ClearAllData
    \/ PostData
    \/ PostUpload
    \/ DeleteData
    \/ GetExport

SpecIngest == IngestInit /\ [][IngestNext]_vars

(***************************************************************************)
(* The forecast engine as pure functions: the series is any short list of  *)
(* yearly points, or one of the sample series over CONFIG.YEARS.           *)
(***************************************************************************)
Pt(y, r, g) == [year |-> y, revenue |-> r, growers |-> g]

\* the yearly points the short series are built from
Points ==
    { Pt(2024, 0, 0), Pt(2024, 1, 2),
      Pt(2025, -2, 0), Pt(2025, 0, 1), Pt(2025, 4, 2),
      Pt(2026, -2, 1), Pt(2026, 0, 0), Pt(2026, 4, 3) }

\* revenue in thousands: 100000, 120000, 150000, 170000, 200000 over 2022..2026
Scenario ==
    << Pt(2022, 100, 3), Pt(2023, 120, 4), Pt(2024, 150, 4),
       Pt(2025, 170, 6), Pt(2026, 200, 7) >>

\* what runForecast builds from a store with sales in the first years only
Declining ==
    << Pt(2022, 9, 3), Pt(2023, 4, 2), Pt(2024, 0, 0),
       Pt(2025, 0, 0), Pt(2026, 0, 0) >>

SeriesInputs ==
    UNION { [1..n -> Points] : n \in 0..MaxLen } \cup { Scenario, Declining }

Methods == { "linear", "growth", "weighted", "other" }

\* confidence levels in percent; 99 stands for every unrecognized level
Confidences == { 80, 90, 95, 99 }

Targets == { 2026, 2027, 2028 }

NoCall == [fn |-> "none"]

ForecastInit ==
    /\ program = "engine"
    /\ tzBehindUTC = FALSE
    /\ BrowserIdle
    /\ ServerIdle
    /\ series \in SeriesInputs
    /\ call = NoCall

CallLinearRegression ==
    \E t \in Targets :
        /\ call = NoCall
        /\ call' = [fn |-> "linearRegression", target |-> t,
                    value |-> linearRegression(Col(series, "year"),
                                               Col(series, "revenue"), t)]
        /\ UNCHANGED <<program, tzBehindUTC, browserVars, serverVars, series>>

CallGrowthRateForecast ==
    /\ call = NoCall
    /\ call' = [fn |-> "growthRateForecast",
                value |-> growthRateForecast(Col(series, "revenue"))]
    /\ UNCHANGED <<program, tzBehindUTC, browserVars, serverVars, series>>

CallWeightedAverageForecast ==
    /\ call = NoCall
    /\ call' = [fn |-> "weightedAverageForecast",
                value |-> weightedAverageForecast(Col(series, "revenue"))]
    /\ UNCHANGED <<program, tzBehindUTC, browserVars, serverVars, series>>

CallCalculateForecast ==
    \E m \in Methods, c \in Confidences :
        /\ call = NoCall
        /\ call' = [fn |-> "calculateForecast", method |-> m, confidence |-> c,
                    locals |-> forecastLocals(series, m, c),
                    value |-> calculateForecast(series, m, c)]
        /\ UNCHANGED <<program, tzBehindUTC, browserVars, serverVars, series>>

ForecastNext ==
    \/ CallLinearRegression
    \/ CallGrowthRateForecast
    \/ CallWeightedAverageForecast
    \/ CallCalculateForecast

SpecForecast == ForecastInit /\ [][ForecastNext]_vars
(***************************************************************************)
(* Properties of the aggregation and retention analyzers, under Spec.      *)
(***************************************************************************)
ByGrowerAnswered == program = "server" /\ res.op = "GET /api/analytics/by-grower"

RetentionAnswered ==
    /\ program = "server"
    /\ res.op = "GET /api/growers/retention/analysis"
    /\ res.status = 200

\* the transactions the grower tab of the page was rendered from
ShownYearData == filterDataByYear(data, dom.growers.growerYear)

\* C1: for a store of non-negative amounts, the per-grower revenues of the
\* by-grower grouping add up to the total revenue of the same transactions:
\* an authorized GET /api/analytics/by-grower answers 200 with growers whose
\* revenues sum to calculateSummary's totalRevenue, and the unfiltered grower
\* table of the dashboard sums to the revenue of the selected year.
C1_GroupingPartitionsTotal ==
    /\ (ByGrowerAnswered /\ res.status # 401) =>
          /\ res.status = 200
          /\ SumRevenue(res.growers) = calculateSummary(StoreRead).totalRevenue
    /\ (program = "browser" /\ dom.rendered /\ dom.growers.growerSearch = "") =>
          SumRevenue(dom.growers.growerTable) = SumAmount(ShownYearData)

\* C1, the failing case: a grower named "constructor" is in the store; the
\* by-grower request is answered 500, and the page's table is not the
\* grouping of the year's transactions
C1_InheritedKeyBreaksGrouping ==
    \/ /\ ByGrowerAnswered
       /\ res.status = 500
       /\ calculateSummary(StoreRead).totalRevenue > 0
    \/ /\ program = "browser"
       /\ dom.rendered
       /\ dom.growers.threw
       /\ SumRevenue(dom.growers.growerTable) # SumAmount(ShownYearData)

\* C2: in the grower statistics of the page and in every entry of the
\* retention response, new + returning is the number of distinct growers of
\* the current year and lost + returning that of the previous year.
C2_RetentionCountsAddUp ==
    /\ (program = "browser" /\ dom.rendered) =>
          LET stats == dom.growers.growerStats
              year == dom.growers.growerYear
          IN /\ stats.newGrowers + stats.returningGrowers
                    = Cardinality(GrowerSet(filterDataByYear(data, year)))
             /\ stats.lostGrowers + stats.returningGrowers
                    = Cardinality(GrowerSet(filterDataByYear(data, year - 1)))
    /\ RetentionAnswered =>
          \A k \in 1..Len(res.retention) :
              LET e == res.retention[k]
              IN /\ e.newGrowers + e.returningGrowers = e.totalGrowers
                 /\ e.lostGrowers + e.returningGrowers = e.previousGrowers

\* C2, reached: statistics with new, returning and lost growers all present,
\* on the page and in a retention response
C2_AllThreeKinds ==
    \/ /\ program = "browser"
       /\ dom.rendered
       /\ dom.growers.growerStats.newGrowers > 0
       /\ dom.growers.growerStats.returningGrowers > 0
       /\ dom.growers.growerStats.lostGrowers > 0
       /\ Len(ShownYearData) > Cardinality(GrowerSet(ShownYearData))
    \/ /\ RetentionAnswered
       /\ \E k \in 1..Len(res.retention) :
              /\ res.retention[k].newGrowers > 0
              /\ res.retention[k].returningGrowers > 0
              /\ res.retention[k].lostGrowers > 0

\* the grower sets of the year the grower tab shows and of the year before
CurrentGrowers == GrowerSet(ShownYearData)

PreviousGrowers == GrowerSet(filterDataByYear(data, dom.growers.growerYear - 1))

\* the entry a finished iteration of the retention loop has just pushed
PushedEntry ==
    IF ret'.pc = "current" THEN ret'.retentionData[Len(ret'.retentionData)]
    ELSE res'.retention[Len(res'.retention)]

C3_Partitions ==
    (program = "browser" /\ dom.rendered) =>
        LET stats == dom.growers.growerStats
        IN /\ stats.returningGrowers = Cardinality(CurrentGrowers \cap PreviousGrowers)
           /\ stats.newGrowers = Cardinality(CurrentGrowers \ PreviousGrowers)
           /\ stats.lostGrowers = Cardinality(PreviousGrowers \ CurrentGrowers)
           /\ ( /\ CurrentGrowers = { "Anderson", "Brown", "Clark" }
                /\ PreviousGrowers = { "Anderson", "Brown", "Davis" } )
                 => /\ stats.newGrowers = 1
                    /\ stats.returningGrowers = 2
                    /\ stats.lostGrowers = 1

C3_Step ==
    /\ ( /\ program = "browser"
         /\ dom.rendered
         /\ Len(data') > Len(data)
         /\ dom'.growers.growerYear = dom.growers.growerYear
         /\ GrowerSet(filterDataByYear(data', dom.growers.growerYear)) = CurrentGrowers
         /\ GrowerSet(filterDataByYear(data', dom.growers.growerYear - 1))
                = PreviousGrowers )
          => dom'.growers.growerStats = dom.growers.growerStats
    /\ (program = "server" /\ ret.pc = "previous" /\ ret' # ret) =>
          LET cur == ret.currentGrowers
              prev == DistinctGrowers(collection, YEARS[ret.i - 1])
          IN /\ PushedEntry.returningGrowers = Cardinality(cur \cap prev)
             /\ PushedEntry.newGrowers = Cardinality(cur \ prev)
             /\ PushedEntry.lostGrowers = Cardinality(prev \ cur)

\* C3: the retention counts are those of the sets current /\ previous
\* (returning), current \ previous (new) and previous \ current (lost) of
\* grower names, which are pairwise disjoint; for current {Anderson, Brown,
\* Clark} and previous {Anderson, Brown, Davis} they are 1 new, 2 returning,
\* 1 lost; and an added transaction of a grower already present in its year
\* changes none of them.
C3_RetentionBySetMembership == []C3_Partitions /\ [][C3_Step]_vars

\* C3, reached: the page shows the statistics of current {Anderson, Brown, Clark}
\* and previous {Anderson, Brown, Davis}, a year in which a grower has more
\* than one transaction
C3_ExampleShown ==
    /\ program = "browser"
    /\ dom.rendered
    /\ CurrentGrowers = { "Anderson", "Brown", "Clark" }
    /\ PreviousGrowers = { "Anderson", "Brown", "Davis" }
    /\ Len(ShownYearData) > Cardinality(CurrentGrowers)
    /\ dom.growers.growerStats.returningGrowers = 2

InPercent(r) == Leq(R(0), r) /\ Leq(r, R(100))

\* a toFixed(1) rate, in tenths
InPercentTenths(r) == Leq(R(0), r) /\ Leq(r, R(1000))

NoGrowersIn(year) == GrowerSet(filterDataByYear(data, year)) = {}

\* C4: every retention rate shown or returned (overview card, grower
\* statistics, retention trend, retention response) is a number from 0 to 100
\* and is 0 when the previous year has no grower.
C4_RetentionRateInRange ==
    /\ (program = "browser" /\ dom.rendered) =>
          /\ InPercentTenths(dom.retentionRate)
          /\ NoGrowersIn(dom.currentYear - 1) => dom.retentionRate = R(0)
          /\ InPercentTenths(dom.growers.growerStats.growerRetention)
          /\ NoGrowersIn(dom.growers.growerYear - 1)
                => dom.growers.growerStats.growerRetention = R(0)
          /\ \A i \in 1..Len(YEARS) :
                /\ InPercent(dom.growers.retentionTrend[i])
                /\ NoGrowersIn(YEARS[i] - 1) => dom.growers.retentionTrend[i] = R(0)
    /\ RetentionAnswered =>
          \A k \in 1..Len(res.retention) :
              /\ InPercentTenths(res.retention[k].retentionRate)
              /\ res.retention[k].previousGrowers = 0
                    => res.retention[k].retentionRate = R(0)

\* C4, reached: a trend with the rate 0 of a year that has growers after a year
\* that has none, next to the rate 200/3 of the following year
C4_ZeroAndPositiveRate ==
    /\ program = "browser"
    /\ dom.rendered
    /\ ~NoGrowersIn(2025)
    /\ NoGrowersIn(2024)
    /\ dom.growers.retentionTrend[4] = R(0)
    /\ dom.growers.retentionTrend[5] = Q(200, 3)
    /\ dom.retentionRate = R(667)

(***************************************************************************)
(* Properties of the forecast engine, under SpecForecast.                  *)
(***************************************************************************)
Revenues == Col(series, "revenue")

Called(fn) == call.fn = fn

SurdFinite(x) == IsFinite(x.q) /\ (x.k = 0 \/ IsFinite(x.m2))

\* C5: for the methods linear, growth and weighted, the confidence levels 0.80,
\* 0.90 and 0.95, and a non-empty series with at least one positive revenue,
\* calculateForecast returns revenueLow <= revenue <= revenueHigh.
C5_BandOrdered ==
    ( /\ Called("calculateForecast")
      /\ call.method \in { "linear", "growth", "weighted" }
      /\ call.confidence \in { 80, 90, 95 }
      /\ series # <<>>
      /\ \E i \in 1..Len(series) : series[i].revenue > 0 )
       => /\ SurdLeqRat(call.value.revenueLow, call.value.revenue.q)
          /\ RatLeqSurd(call.value.revenue.q, call.value.revenueHigh)

\* C5, the failing case: revenues 4 and 0 in 2025 and 2026; the linear
\* projection is -4, the point value is floored to 0, and the upper bound
\* -4 + 1.28 * 2 lies below it
C5_UpperBoundBelowPoint ==
    /\ series = << Pt(2025, 4, 2), Pt(2026, 0, 0) >>
    /\ Called("calculateForecast")
    /\ call.method = "linear"
    /\ call.confidence = 80
    /\ call.value.revenue = OfQ(R(0))
    /\ call.value.revenueHigh = Surd(R(-4), 1, Q(4096, 625))
    /\ ~RatLeqSurd(call.value.revenue.q, call.value.revenueHigh)

\* C6: for every series, the empty one, a single point and points of one year
\* included, each forecast method and calculateForecast return finite numbers.
C6_ForecastsFinite ==
    /\ ( \/ Called("linearRegression")
         \/ Called("growthRateForecast")
         \/ Called("weightedAverageForecast") ) => IsFinite(call.value)
    /\ Called("calculateForecast") =>
          /\ SurdFinite(call.value.revenue)
          /\ SurdFinite(call.value.revenueLow)
          /\ SurdFinite(call.value.revenueHigh)
          /\ SurdFinite(call.value.growers)
          /\ SurdFinite(call.value.growersLow)
          /\ SurdFinite(call.value.growersHigh)

\* C6, the failing case: a single point; the slope is 0/0 and every field of
\* the linear forecast is NaN
C6_SinglePointIsNaN ==
    /\ series = << Pt(2025, 4, 2) >>
    /\ Called("calculateForecast")
    /\ call.method = "linear"
    /\ SurdIsNaN(call.value.revenue)
    /\ SurdIsNaN(call.value.revenueLow)
    /\ SurdIsNaN(call.value.revenueHigh)
    /\ SurdIsNaN(call.value.growers)

\* the least-squares line in its centred form: mean(y) + Sxy / Sxx * (t - mean(x))
Mean(s) == Q(SumSeq(s), Len(s))

CrossDeviation(x, y) ==
    SumQ([i \in 1..Len(x) |-> Mul(Sub(R(x[i]), Mean(x)), Sub(R(y[i]), Mean(y)))])

LeastSquaresAt(x, y, t) ==
    Add(Mean(y), Mul(Div(CrossDeviation(x, y), CrossDeviation(x, x)),
                     Sub(R(t), Mean(x))))

\* C8 as amended: for years that are not all the same, linearRegression is the
\* ordinary least-squares line of the revenues on the years at the target; for
\* the revenues 100, 120, 150, 170, 200 (thousands) of 2022..2026 the slope is
\* 25 (thousand) a year and the value at 2027 is 223 (thousand).  The line is
\* homogeneous in the revenues, so the thousands scale back exactly.
C8_LeastSquares ==
    Called("linearRegression") =>
        /\ CrossDeviation(Col(series, "year"), Col(series, "year")) # R(0)
              => call.value = LeastSquaresAt(Col(series, "year"), Revenues, call.target)
        /\ series = Scenario
              => /\ Div(CrossDeviation(Col(series, "year"), Revenues),
                        CrossDeviation(Col(series, "year"), Col(series, "year"))) = R(25)
                 /\ call.value = R(223 + 25 * (call.target - 2027))

\* C8, reached: the scenario projected at 2027
C8_ScenarioAt2027 ==
    /\ series = Scenario
    /\ Called("linearRegression")
    /\ call.target = 2027
    /\ call.value = R(223)

\* C8 as it stands: the scenario projected at 2027 is 225000, up to rounding
C8_ScenarioProjects225 ==
    (Called("linearRegression") /\ series = Scenario /\ call.target = 2027)
        => Round(Mul(call.value, R(1000))) = R(225000)

\* the mean of the rates of the transitions picked by Skip, over the series d
RECURSIVE SumRates(_, _)
SumRates(d, T) ==
    IF T = {} THEN R(0)
    ELSE LET i == CHOOSE j \in T : TRUE
         IN Add(Q(d[i] - d[i - 1], d[i - 1]), SumRates(d, T \ {i}))

MeanRate(d, T) == IF T = {} THEN R(0) ELSE Div(SumRates(d, T), R(Cardinality(T)))

GrowthFrom(d, T) ==
    IF Len(d) = 0 THEN R(0)
    ELSE IF Len(d) = 1 THEN R(d[1])
    ELSE Mul(R(d[Len(d)]), Add(R(1), MeanRate(d, T)))

\* C9 as amended: growthRateForecast is the last value times 1 + the mean of the
\* year-over-year relative changes, where every transition whose prior value is
\* 0 or negative is left out (mean 0 when none remains); a single value is
\* returned unchanged, and the empty series gives 0.
C9_GrowthRateForecast ==
    Called("growthRateForecast") =>
        call.value = GrowthFrom(Revenues, { i \in 2..Len(Revenues) : Revenues[i - 1] > 0 })

\* C9, reached: a series with a negative prior value, whose transition is left out
C9_NegativePriorLeftOut ==
    /\ Col(series, "revenue") = << -2, 4 >>
    /\ Called("growthRateForecast")
    /\ call.value = R(4)

\* C9 as it stands: only the transitions whose prior value is 0 are left out
C9_OnlyZeroPriorLeftOut ==
    Called("growthRateForecast") =>
        call.value = GrowthFrom(Revenues, { i \in 2..Len(Revenues) : Revenues[i - 1] # 0 })

WeightedMean(d) ==
    Q(SumSeq([i \in 1..Len(d) |-> i * d[i]]), SumSeq([i \in 1..Len(d) |-> i]))

\* C10: weightedAverageForecast is the mean of the series weighted 1, 2, 3, ...
\* from the earliest value on, times 1.05 when the last value is above the
\* plain mean and times 0.95 when it is below; the empty series gives 0.
C10_WeightedAverageForecast ==
    Called("weightedAverageForecast") =>
        /\ Revenues = <<>> => call.value = R(0)
        /\ (Revenues # <<>> /\ Lt(Mean(Revenues), R(Revenues[Len(Revenues)])))
              => call.value = Mul(WeightedMean(Revenues), Q(105, 100))
        /\ (Revenues # <<>> /\ Lt(R(Revenues[Len(Revenues)]), Mean(Revenues)))
              => call.value = Mul(WeightedMean(Revenues), Q(95, 100))

\* C10, reached: three values with the last one above the mean
C10_LastAboveMean ==
    /\ Revenues = << 0, 1, 4 >>
    /\ Called("weightedAverageForecast")
    /\ call.value = Q(147, 60)

NonNegative(x) == RatLeqSurd(R(0), x)

\* C11: in every forecast result revenue, revenueLow, growers and growersLow are
\* >= 0, while revenueHigh is the raw projection plus the margin and growersHigh
\* the rounded raw grower projection plus margin, neither floored at 0.
C11_FlooredExceptUpper ==
    Called("calculateForecast") =>
        /\ NonNegative(call.value.revenue)
        /\ NonNegative(call.value.revenueLow)
        /\ NonNegative(call.value.growers)
        /\ NonNegative(call.value.growersLow)
        /\ call.value.revenueHigh
              = Plus(call.locals.forecastRevenue, call.locals.marginOfError)
        /\ call.value.growersHigh
              = SurdRound(Plus(call.locals.forecastGrowers, call.locals.growerMargin))

\* C11, the failing case: a single point; the linear projections are NaN, and
\* Math.max(0, NaN) is NaN, which is not >= 0
C11_NaNIsNotFloored ==
    /\ series = << Pt(2026, 4, 3) >>
    /\ Called("calculateForecast")
    /\ call.method = "linear"
    /\ IsNaN(call.locals.forecastRevenue)
    /\ ~NonNegative(call.value.revenue)
    /\ ~NonNegative(call.value.revenueLow)
    /\ ~NonNegative(call.value.growers)
    /\ ~NonNegative(call.value.growersLow)

\* the population variance as the mean of the squares minus the square of the mean
PopulationVariance(d) ==
    Sub(Q(SumSeq([i \in 1..Len(d) |-> d[i] * d[i]]), Len(d)), Mul(Mean(d), Mean(d)))

ZScoreOf(confidence) ==
    CASE confidence = 80 -> Q(128, 100)
      [] confidence = 90 -> Q(1645, 1000)
      [] confidence = 95 -> Q(196, 100)
      [] OTHER           -> Q(1645, 1000)

\* the square root of variance * z * z, that is standard deviation * z
DeviationTimes(variance, z) == Surd(R(0), 1, Mul(variance, Mul(z, z)))

\* C12: for a non-empty series the margins of calculateForecast are the
\* population standard deviation of the revenues, and of the grower counts,
\* times one z-score: 1.28 for 0.80, 1.645 for 0.90, 1.96 for 0.95 and 1.645
\* for every other confidence level.
C12_MarginIsDeviationTimesZ ==
    (Called("calculateForecast") /\ series # <<>>) =>
        /\ call.locals.marginOfError
              = DeviationTimes(PopulationVariance(Revenues), ZScoreOf(call.confidence))
        /\ call.locals.growerMargin
              = DeviationTimes(PopulationVariance(Col(series, "growers")),
                               ZScoreOf(call.confidence))

\* C12, reached: the scenario at a confidence level that is none of the three;
\* the revenue variance is 1256 and the z-score 1.645
C12_FallbackOnScenario ==
    /\ series = Scenario
    /\ Called("calculateForecast")
    /\ call.confidence = 99
    /\ call.locals.marginOfError = Surd(R(0), 1, Mul(R(1256), Q(108241, 40000)))
    /\ call.locals.growerMargin = Surd(R(0), 1, Mul(Q(54, 25), Q(108241, 40000)))

(***************************************************************************)
(* Claims about the summaries and the frame of the analytics, on Spec.     *)
(***************************************************************************)
\* the records GET /api/analytics/by-year/:year reads
YearRead(year) ==
    IF mongo THEN FindByYear(collection, year)
    ELSE FilterByYear(inMemoryData, year, tzBehindUTC)

SummaryOfNothing ==
    [totalRevenue |-> 0, totalOrders |-> 0, uniqueGrowers |-> 0, totalUnits |-> 0,
     avgOrderValue |-> R(0)]

\* C17: for an empty store, and for a year without transactions, the summary is
\* revenue 0, units 0, orders 0, growers 0 and average order value 0, answered with
\* status 200; getSummaryByYear gives the four zeros for such a year.
C17_SummaryOfNothingIsZero ==
    /\ (res.op = "GET /api/analytics/summary" /\ res.status # 401 /\ StoreRead = <<>>)
          => res.status = 200 /\ res.summary = SummaryOfNothing
    /\ (res.op = "GET /api/analytics/by-year" /\ res.status # 401
          /\ YearRead(res.year) = <<>>)
          => res.status = 200 /\ res.summary = SummaryOfNothing
    /\ \A year \in GrowerYearOptions :
          FindByYear(collection, year) = <<>>
             => getSummaryByYear(collection, year)
                  = [totalRevenue |-> 0, totalQuantity |-> 0, totalOrders |-> 0,
                     uniqueGrowers |-> 0]

\* the summary of a year without transactions, read from a store that has records
C17_YearWithoutTransactions ==
    /\ res.op = "GET /api/analytics/by-year" /\ res.status = 200
    /\ StoreRead # <<>>
    /\ YearRead(res.year) = <<>>
    /\ res.summary = SummaryOfNothing

\* the answers of the analytic endpoints
AnalyticOps ==
    { "GET /api/analytics/summary", "GET /api/analytics/by-year",
      "GET /api/analytics/by-grower", "GET /api/export",
      "GET /api/growers/retention/analysis" }

\* C20: no analytic computation changes the transaction store: a step after which
\* the records of a store are not the records before it is no answer of an
\* analytic endpoint, no step of a retention request (whatever other request is
\* served between its steps) and no refresh of the grower analysis.
C20_AnalyticsLeaveStore ==
    [][<<data, localStorage, inMemoryData, collection>>'
          # <<data, localStorage, inMemoryData, collection>>
       => ~(res'.op \in AnalyticOps \/ ret' # ret \/ ApplyGrowerFilter)]_vars

\* an export has answered with the two records of the store
C20_ExportOfTwoRecords ==
    /\ res.op = "GET /api/export" /\ res.status = 200
    /\ Len(StoreRead) = 2 /\ res.records = StoreRead

(***************************************************************************)
(* Claims about the year filter, the access code and the retention trend,  *)
(* on Spec.                                                                *)
(***************************************************************************)
\* the records of d whose date lies in the calendar year, January 1 and December 31
\* included
OfCalendarYear(d, year) ==
    LET Test(t) == t.date \div 1000 = year
    IN SelectSeq(d, Test)

\* C21: the year filter selects a transaction exactly when the calendar year of its
\* date is the year asked for, January 1 and December 31 included, so that the
\* in-memory filter and the MongoDB date range select the same transactions: the
\* by-year summary is the summary of the stored records of that calendar year.
C21_YearFilterIsCalendarYear ==
    (res.op = "GET /api/analytics/by-year" /\ res.status = 200)
        => res.summary = calculateSummary(OfCalendarYear(StoreRead, res.year))

\* C21, reached: without MongoDB, behind UTC, the record of January 1 2025 is stored
\* and the summary of 2025 does not count it
C21_JanuaryFirstLeftOut ==
    /\ res.op = "GET /api/analytics/by-year" /\ res.status = 200 /\ res.year = 2025
    /\ ~mongo /\ tzBehindUTC
    /\ \E i \in 1..Len(inMemoryData) : inMemoryData[i].date = 2025001
    /\ res.summary.totalOrders < Len(OfCalendarYear(inMemoryData, 2025))

\* a request to an endpoint behind authenticate, sent with the header code
DataRequest(code) ==
    \/ PostDataWith(code)
    \/ PostUploadWith(code)
    \/ DeleteDataWith(code)
    \/ GetSummaryWith(code)
    \/ GetByYearWith(code)
    \/ GetByGrowerWith(code)
    \/ GetExportWith(code)
    \/ RetentionRefusedWith(code)

\* the header holds a valid access code: the configured one or the built-in one
ValidCode(code) ==
    code # Undefined /\ (code = envAccessCode \/ code = "pioneer2024")

\* C22: a request to a data endpoint that carries no X-Access-Code header, or a
\* value that is no valid access code, is answered 401 and leaves both stores as
\* they are.
C22_InvalidCodeIsRefused ==
    [][\A code \in AccessCodes :
          (~ValidCode(code) /\ DataRequest(code))
              => /\ res'.status = 401
                 /\ UNCHANGED <<inMemoryData, collection>>]_vars

\* C22, reached: ACCESS_CODE is not set and the store has a record, which only a
\* request that passed authenticate can have put there
C22_StoredWithoutConfiguredCode ==
    /\ envAccessCode = Undefined
    /\ res.op = "POST /api/data" /\ res.status = 200
    /\ StoreRead # <<>>

\* the share, in percent, of the growers of the previous year who are growers of
\* the current year; 0 when the previous year has no grower
PairRate(cur, prev) ==
    IF prev = {} THEN R(0)
    ELSE Mul(Q(Cardinality(cur \cap prev), Cardinality(prev)), R(100))

\* the trend shown and the trend answered: one entry for each pair of consecutive
\* years, in the order of the years
C23_Trend ==
    /\ (program = "browser" /\ dom.rendered) =>
          /\ Len(dom.growers.retentionTrend) = Len(YEARS)
          /\ dom.growers.retentionTrend[1] = R(0)
          /\ \A i \in 2..Len(YEARS) :
                /\ YEARS[i] = YEARS[i - 1] + 1
                /\ dom.growers.retentionTrend[i]
                      = PairRate(GrowerSet(filterDataByYear(data, YEARS[i])),
                                 GrowerSet(filterDataByYear(data, YEARS[i - 1])))
    /\ RetentionAnswered =>
          /\ Len(res.retention) = Len(YEARS) - 1
          /\ \A k \in 1..Len(res.retention) : res.retention[k].year = YEARS[k + 1]

\* the entry an iteration of the retention loop pushes is that of the growers its
\* two queries answered: those of YEARS[i] and those of YEARS[i - 1]
C23_Step ==
    (program = "server" /\ ret.pc = "previous" /\ ret' # ret) =>
        LET cur == ret.currentGrowers
            prev == DistinctGrowers(collection, YEARS[ret.i - 1])
        IN /\ PushedEntry.year = YEARS[ret.i]
           /\ PushedEntry.totalGrowers = Cardinality(cur)
           /\ PushedEntry.retentionRate = Round(Mul(PairRate(cur, prev), R(10)))
           /\ (ret.i = 2 \/ ret.retentionData # <<>>)
           /\ (ret.retentionData # <<>>) =>
                 ret.retentionData[Len(ret.retentionData)].year = YEARS[ret.i - 1]

\* C23: the retention trend is computed pairwise over the configured years
\* Y[0..n-1]: one entry for each consecutive pair (Y[i-1], Y[i]), in ascending
\* order of the years, the entry of Y[i] computed from the growers of Y[i] and of
\* Y[i-1] only.  The chart of the dashboard holds, before these, the point 0 of Y[0].
C23_TrendIsPairwise == []C23_Trend /\ [][C23_Step]_vars

\* C23, reached: a retention response of four entries, for 2023 to 2026, whose last
\* entry counts two growers of 2026 among the three of 2025
C23_FourPairsAnswered ==
    /\ RetentionAnswered
    /\ Len(res.retention) = 4
    /\ res.retention[4].year = 2026
    /\ res.retention[3].totalGrowers = 3
    /\ res.retention[4].returningGrowers = 2
    /\ res.retention[4].retentionRate = R(667)

\* the transactions of grower g in d
OfGrower(d, g) ==
    LET Test(t) == t.grower_name = g
    IN SelectSeq(d, Test)

DatesOf(d) == { d[i].date : i \in 1..Len(d) }

MinDate(d) == CHOOSE x \in DatesOf(d) : \A y \in DatesOf(d) : x <= y

MaxDate(d) == CHOOSE x \in DatesOf(d) : \A y \in DatesOf(d) : y <= x

\* the summary a grower of d is to have
SummaryOfGrower(d, g) ==
    [name          |-> g,
     revenue       |-> SumAmount(OfGrower(d, g)),
     orders        |-> Len(OfGrower(d, g)),
     products      |-> { OfGrower(d, g)[i].product : i \in 1..Len(OfGrower(d, g)) },
     firstPurchase |-> MinDate(OfGrower(d, g)),
     lastPurchase  |-> MaxDate(OfGrower(d, g))]

\* rows is the summary of every grower of d, whatever the order of d
IsGrowerSummary(rows, d) ==
    /\ { rows[i] : i \in 1..Len(rows) } = { SummaryOfGrower(d, g) : g \in GrowerSet(d) }
    /\ Len(rows) = Cardinality(GrowerSet(d))

\* C24: for every grower the summary's firstPurchase is the minimum and its
\* lastPurchase the maximum of the dates of the grower's transactions, and the
\* summary (revenue, orders, products, first and last date) is the same for every
\* permutation of the transactions: the by-grower answer, and the grower table of
\* the dashboard, hold for every grower of the transactions read the summary of
\* that grower, and so does the grouping of every permutation of them.
C24_GrowerSummaryIsMinMax ==
    /\ (ByGrowerAnswered /\ res.status # 401) =>
          /\ res.status = 200
          /\ IsGrowerSummary(res.growers, StoreRead)
          /\ \A p \in Orderings(StoreRead) : IsGrowerSummary(GroupByGrower(p), StoreRead)
    /\ (program = "browser" /\ dom.rendered /\ dom.growers.growerSearch = "") =>
          /\ Len(dom.growers.growerTable) = Cardinality(GrowerSet(ShownYearData))
          /\ \A i \in 1..Len(dom.growers.growerTable) :
                LET row == dom.growers.growerTable[i]
                IN /\ row.name \in GrowerSet(ShownYearData)
                   /\ row.firstPurchase = SummaryOfGrower(ShownYearData, row.name).firstPurchase
                   /\ row.lastPurchase = SummaryOfGrower(ShownYearData, row.name).lastPurchase
                   /\ row.revenue = SummaryOfGrower(ShownYearData, row.name).revenue
                   /\ row.orders = SummaryOfGrower(ShownYearData, row.name).orders
          /\ Len(data) <= 3 =>
                \A p \in Orderings(data) :
                    GroupThrows(filterDataByYear(p, dom.growers.growerYear))
                    \/ IsGrowerSummary(growerStats(p, dom.growers.growerYear), ShownYearData)

\* C24, reached: the store holds two growers, one of them named "constructor", and
\* the by-grower request is answered 500: no grower has a summary
C24_NoSummaryForAnyGrower ==
    /\ ByGrowerAnswered /\ res.status = 500
    /\ Cardinality(GrowerSet(StoreRead)) = 2
    /\ "Anderson" \in GrowerSet(StoreRead)

(***************************************************************************)
(* The tables and the summary called on their own, on a store that is      *)
(* drawn from the records entered and three records of a CSV import: a     *)
(* quantity of -1, a refund, and a sale of a product outside the list.     *)
(***************************************************************************)
TableRecords ==
    Records \cup { Txn(2026069, "INV-4", "Anderson", "Corn Seed", 0 - 1, 7),
                   Txn(2026200, "INV-8", "Brown", "Herbicide", 1, 0 - 3),
                   Txn(2026010, "INV-9", "Davis", "Widget", 1, 2) }

TableStores == UNION { [1..n -> TableRecords] : n \in 0..MaxStore }

\* the years from hist-year-start to hist-year-end, and the options of hist-product
HistYears == << 2024, 2025, 2026 >>

HistProducts == { "all", "Corn Seed" }

\* the options of the product-year select; 0 is 'all'
ProductYearOptions == { 0, 2026 }

TablesInit ==
    /\ program = "tables"
    /\ tzBehindUTC \in BOOLEAN
    /\ BrowserIdle
    /\ ServerIdle
    /\ series \in TableStores
    /\ call = NoCall

CallUpdateHistoricalTable ==
    \E product \in HistProducts :
        /\ call = NoCall
        /\ call' = [fn |-> "updateHistoricalTable", product |-> product,
                    value |-> updateHistoricalTable(series, HistYears, product,
                                                    tzBehindUTC)]
        /\ UNCHANGED <<program, tzBehindUTC, browserVars, serverVars, series>>

CallUpdateProductTable ==
    \E year \in ProductYearOptions :
        /\ call = NoCall
        /\ call' = [fn |-> "updateProductTable", year |-> year,
                    value |-> updateProductTable(series, year, tzBehindUTC)]
        /\ UNCHANGED <<program, tzBehindUTC, browserVars, serverVars, series>>

CallCalculateSummary ==
    /\ call = NoCall
    /\ call' = [fn |-> "calculateSummary", value |-> calculateSummary(series)]
    /\ UNCHANGED <<program, tzBehindUTC, browserVars, serverVars, series>>

CallCreateTopGrowersChart ==
    \E year \in GrowerYearOptions :
        \E chart \in createTopGrowersChart(series, year) :
            /\ call = NoCall
            /\ call' = [fn |-> "createTopGrowersChart", year |-> year, value |-> chart]
            /\ UNCHANGED <<program, tzBehindUTC, browserVars, serverVars, series>>

\* the values of :count requested
TopCounts == { "0", "1", "2" }

\* GET /api/growers/top/:count on a collection, which holds valid documents only
CallTopGrowers ==
    /\ ~tzBehindUTC
    /\ \A i \in 1..Len(series) : ValidDocument(series[i])
    /\ \E count \in TopCounts, year \in ProductYearOptions :
        \E growers \in TopGrowers(series, count, year) :
            /\ call = NoCall
            /\ call' = [fn |-> "GET /api/growers/top", count |-> count, year |-> year,
                        value |-> growers]
            /\ UNCHANGED <<program, tzBehindUTC, browserVars, serverVars, series>>

CallCreateOverviewProductChart ==
    /\ call = NoCall
    /\ call' = [fn |-> "createOverviewProductChart",
                value |-> createOverviewProductChart(series)]
    /\ UNCHANGED <<program, tzBehindUTC, browserVars, serverVars, series>>

\* GET /api/analytics/by-product on the in-memory store
CallByProduct ==
    /\ call = NoCall
    /\ call' = [fn |-> "GET /api/analytics/by-product", value |-> ByProduct(series)]
    /\ UNCHANGED <<program, tzBehindUTC, browserVars, serverVars, series>>

TablesNext ==
    \/ CallUpdateHistoricalTable
    \/ CallUpdateProductTable
    \/ CallCalculateSummary
    \/ CallCreateTopGrowersChart
    \/ CallTopGrowers
    \/ CallCreateOverviewProductChart
    \/ CallByProduct

SpecTables == TablesInit /\ [][TablesNext]_vars

(***************************************************************************)
(* The API client (api.js): a caller runs syncToServer(localData) twice    *)
(* with the same localData against a server whose store starts empty.      *)
(* The ids generateId and the server draw are random texts; the model      *)
(* gives the records of the dashboard the ids local-1, local-2, ... and    *)
(* the records of the server the ids server-1, server-2, ...               *)
(***************************************************************************)
LocalId(i) == "local-" \o NaturalText(i)

ServerId(n) == "server-" \o NaturalText(n)

\* addDataEntry: { ...entry, id: generateId() }
WithId(t, id) == [f \in DOMAIN t \cup { "id" } |-> IF f = "id" THEN id ELSE t[f]]

\* GrowerTransaction.create(record): the document saved has _id and no id
WithObjectId(t, id) == [f \in DOMAIN t \cup { "_id" } |-> IF f = "_id" THEN id ELSE t[f]]

\* the entries the dashboard holds: two that every store takes, one whose product
\* the schema refuses, one without a product
SyncEntries ==
    { Txn(2025166, "INV-1", "Anderson", "Corn Seed", 2, 5),
      Txn(2025001, "INV-2", "Brown", "Herbicide", 1, 3),
      Txn(2026365, "INV-6", "Clark", "Widget", 0, 0),
      Txn(2026100, "INV-7", "Davis", "", 1, 1) }

\* state.data: up to MaxDocs different entries, each with its id
LocalStores ==
    { [i \in 1..Len(d) |-> WithId(d[i], LocalId(i))] :
        d \in { e \in UNION { [1..n -> SyncEntries] : n \in 0..MaxDocs } :
                  \A i, j \in 1..Len(e) : e[i] = e[j] => i = j } }

\* the calls of syncToServer the caller makes
MaxSyncs == 2

\* d.id || d._id
IdOf(d) == IF "id" \in DOMAIN d THEN d.id ELSE d._id

\* const { date, invoice_number, grower_name, product, quantity, amount } = req.body
BodyOf(d) ==
    Txn(d.date, d.invoice_number, d.grower_name, d.product, d.quantity, d.amount)

SyncIdle == [fn |-> "none", n |-> 0, isOnline |-> TRUE, pc |-> "idle"]

SyncInit ==
    /\ program = "sync"
    /\ tzBehindUTC = FALSE
    /\ isAuthenticated = TRUE
    /\ data \in LocalStores
    /\ localStorage = data
    /\ dom = IdleDom
    /\ pendingCSVData = <<>>
    /\ csvFile = NoFileChosen
    /\ reader = {}
    /\ pendingBulkData = <<>>
    /\ download = NoDownload
    /\ mongo \in BOOLEAN
    /\ envAccessCode = Undefined
    /\ inMemoryData = <<>>
    /\ collection = <<>>
    /\ res = IdleRes
    /\ ret = IdleRet
    /\ series = <<>>
    /\ call = SyncIdle

SyncFrame ==
    UNCHANGED <<program, tzBehindUTC, browserVars, mongo, envAccessCode, ret, series>>

\* syncToServer(localData), up to the call of addRecords: it throws when the client
\* is offline; otherwise getData is answered and newRecords are the local records
\* whose id is no id of a server record
SyncToServer ==
    /\ program = "sync"
    /\ call.pc \in { "idle", "returned", "thrown" }
    /\ call.n < MaxSyncs
    /\ IF ~call.isOnline
       THEN /\ call' = [fn |-> "syncToServer", n |-> call.n + 1, isOnline |-> FALSE,
                        pc |-> "thrown"]
            /\ UNCHANGED res
       ELSE LET serverIds == { IdOf(StoreRead[i]) : i \in 1..Len(StoreRead) }
                New(d) == d.id \notin serverIds
            IN /\ call' = [fn |-> "syncToServer", n |-> call.n + 1, isOnline |-> TRUE,
                           pc |-> "adding", newRecords |-> SelectSeq(data, New),
                           next |-> 1, results |-> <<>>]
               /\ res' = [op |-> "GET /api/data", status |-> 200]
    /\ UNCHANGED <<inMemoryData, collection>>
    /\ SyncFrame

\* one turn of the loop of addRecords: addRecord posts the record to /api/data with
\* the built-in access code; the request does not reach the server (fetch raises a
\* TypeError, the client goes offline), or the server answers; a failure of either
\* kind is caught and logged
AddRecord ==
    /\ program = "sync"
    /\ call.pc = "adding"
    /\ call.next <= Len(call.newRecords)
    /\ LET body == BodyOf(call.newRecords[call.next])
           id == ServerId(Len(StoreRead) + 1)
       IN \E reached \in BOOLEAN :
            IF ~reached
            THEN /\ call' = [call EXCEPT !.next = @ + 1, !.isOnline = FALSE]
                 /\ UNCHANGED <<inMemoryData, collection, res>>
            ELSE IF body.date = 0 \/ body.grower_name = "" \/ body.product = ""
            THEN /\ call' = [call EXCEPT !.next = @ + 1, !.isOnline = TRUE]
                 /\ res' = [op |-> "POST /api/data", status |-> 400]
                 /\ UNCHANGED <<inMemoryData, collection>>
            ELSE IF mongo /\ ~ValidDocument(body)
            THEN /\ call' = [call EXCEPT !.next = @ + 1, !.isOnline = TRUE]
                 /\ res' = [op |-> "POST /api/data", status |-> 500]
                 /\ UNCHANGED <<inMemoryData, collection>>
            ELSE LET saved == IF mongo THEN WithObjectId(body, id) ELSE WithId(body, id)
                 IN /\ call' = [call EXCEPT !.next = @ + 1, !.isOnline = TRUE,
                                            !.results = Append(@, saved)]
                    /\ res' = [op |-> "POST /api/data", status |-> 200]
                    /\ IF mongo
                       THEN collection' = Append(collection, saved) /\ UNCHANGED inMemoryData
                       ELSE inMemoryData' = Append(inMemoryData, saved) /\ UNCHANGED collection
    /\ SyncFrame

\* return { synced: newRecords.length, total: localData.length }
SyncReturn ==
    /\ program = "sync"
    /\ call.pc = "adding"
    /\ call.next > Len(call.newRecords)
    /\ call' = [fn |-> "syncToServer", n |-> call.n, isOnline |-> call.isOnline,
                pc |-> "returned", newRecords |-> call.newRecords,
                results |-> call.results,
                value |-> [synced |-> Len(call.newRecords), total |-> Len(data)]]
    /\ UNCHANGED <<inMemoryData, collection, res>>
    /\ SyncFrame

SyncNext ==
    \/ SyncToServer
    \/ AddRecord
    \/ SyncReturn

SpecSync == SyncInit /\ [][SyncNext]_vars

(***************************************************************************)
(* Claims about ingestion, checked on SpecIngest.                          *)
(***************************************************************************)
\* the records of the four stores
StoredRecords ==
    { data[i] : i \in 1..Len(data) } \cup { localStorage[i] : i \in 1..Len(localStorage) }
    \cup { inMemoryData[i] : i \in 1..Len(inMemoryData) }
    \cup { collection[i] : i \in 1..Len(collection) }

\* C13: after any sequence of manual entries, CSV and bulk imports, POST /api/data,
\* POST /api/upload and clears, every stored record has a non-empty date, a
\* non-empty grower name and a non-empty product.
C13_RequiredFieldsStored ==
    \A t \in StoredRecords : t.date # 0 /\ t.grower_name # "" /\ t.product # ""

\* POST /api/upload without MongoDB has stored the row "2026100,INV-7,,,1,1"
C13_UploadStoredEmptyFields ==
    /\ program = "server" /\ ~mongo
    /\ res.op = "POST /api/upload" /\ res.status = 200 /\ res.file = EmptyAndNegative
    /\ \E i \in 1..Len(inMemoryData) :
        inMemoryData[i].grower_name = "" /\ inMemoryData[i].product = ""

\* C14: every stored record has quantity >= 0 and amount >= 0; a number that is
\* absent or cannot be read is stored as 0.
C14_NumbersNotNegative ==
    /\ \A t \in StoredRecords : t.quantity >= 0 /\ t.amount >= 0
    /\ ClientParse[TitleAndHeader][1].quantity = 0
    /\ ClientParse[TitleAndHeader][1].amount = 0

\* the dashboard has imported the row with quantity -1
C14_ImportStoredNegative ==
    /\ program = "browser"
    /\ \E i \in 1..Len(data) : data[i].invoice_number = "INV-4" /\ data[i].quantity = 0 - 1
    /\ data = localStorage

\* a row that does not qualify: fewer than six delimited fields
Malformed(line) == Trim(line) # "" /\ Len(CSVValues(Trim(line))) < 6

\* the text without its malformed rows
WithoutMalformed(text) ==
    LET lines == CSVLines(text)
        Keep(line) == ~Malformed(line)
    IN Join(SelectSeq(lines, Keep), "\n")

HasMalformed(text) == \E i \in 1..Len(CSVLines(text)) : Malformed(CSVLines(text)[i])

InSeq(t, d) == \E i \in 1..Len(d) : d[i] = t

\* the records the server stores when they are sent on their own
Storable(records) ==
    records # <<>> /\ (mongo => \A i \in 1..Len(records) : ValidDocument(records[i]))

\* on the dashboard every record of the rows that qualify is parsed, whatever
\* malformed rows the file holds, and no more records than rows of six fields
ClientKeepsQualifyingRows ==
    \A text \in CsvTexts :
        /\ \A i \in 1..Len(parseCSV(WithoutMalformed(text))) :
              InSeq(parseCSV(WithoutMalformed(text))[i], ClientParse[text])
        /\ Len(ClientParse[text])
             <= Cardinality({ i \in 1..Len(CSVLines(text)) :
                                Len(CSVValues(Trim(CSVLines(text)[i]))) >= 6 })

\* C15: a row qualifies only with six or more delimited fields; a malformed row is
\* skipped and never prevents the other rows of the same import from being parsed
\* and stored: what the rows store without the malformed rows, they store with them.
C15_MalformedRowsOnlySkipped ==
    /\ ClientKeepsQualifyingRows
    /\ (/\ res.op = "POST /api/upload" /\ res.status # 401 /\ res.file # NoFile
        /\ HasMalformed(res.file)
        /\ Storable(parseCSVServer(WithoutMalformed(res.file))))
       => \A i \in 1..Len(parseCSVServer(WithoutMalformed(res.file))) :
             InSeq(parseCSVServer(WithoutMalformed(res.file))[i], StoreRead)

\* with MongoDB the upload of a file with a title line above its header has failed
\* and stored nothing
C15_TitleLineFailedUpload ==
    /\ program = "server" /\ mongo
    /\ res.op = "POST /api/upload" /\ res.status = 500 /\ res.file = TitleAndHeader
    /\ collection = <<>>

\* C16: the text exported with the six-column header, parsed again, gives the
\* records exported: the same number of records with the same six values,
\* text fields that hold a comma and numbers that are 0 included.
C16_ExportParsesBack ==
    /\ download.saved => parseCSV(download.csv) = download.records
    /\ (res.op = "GET /api/export" /\ res.status = 200)
          => parseCSVServer(res.body) = res.records

\* the dashboard has exported the record of "Smith, John": read back, the name
\* is "Smith" and the product "John"
C16_CommaSplitsTheName ==
    /\ download.saved
    /\ download.records = << Txn(2025252, "INV-3", "Smith, John", "Corn Seed", 1, 4) >>
    /\ parseCSV(download.csv) = << Txn(2025252, "INV-3", "Smith", "John", 0, 1) >>

\* a record the schema would take but for its product
ValidButForProduct(t) ==
    t.date > 0 /\ t.grower_name # "" /\ t.product # "" /\ t.quantity >= 0 /\ t.amount >= 0

\* C19: a record whose product is none of the ten categories is accepted and stored
\* by every path, with MongoDB and without, and costs the import no other record:
\* the dashboard parses it, POST /api/data never fails on it (every body of the
\* model that has its three fields is valid but for its product), and an upload of
\* records valid but for their products stores them all.
C19_UnknownProductStored ==
    /\ InSeq(Txn(2026365, "INV-6", "Clark", "Widget", 0, 0), ClientParse[UnknownProduct])
    /\ res.op = "POST /api/data" => res.status # 500
    /\ (/\ res.op = "POST /api/upload" /\ res.status # 401 /\ res.file # NoFile
        /\ ServerParse[res.file] # <<>>
        /\ \A i \in 1..Len(ServerParse[res.file]) :
              ValidButForProduct(ServerParse[res.file][i]))
       => /\ res.status = 200
          /\ \A i \in 1..Len(ServerParse[res.file]) :
                InSeq(ServerParse[res.file][i], StoreRead)

\* with MongoDB the upload of Clark's "Widget" row and Brown's "Herbicide" row has
\* failed, and Brown's row is not stored
C19_UnknownProductFailedUpload ==
    /\ program = "server" /\ mongo
    /\ res.op = "POST /api/upload" /\ res.status = 500 /\ res.file = UnknownProduct
    /\ ~InSeq(Txn(2025001, "INV-2", "Brown", "Herbicide", 1, 3), collection)

(***************************************************************************)
(* Claims about the tables and the summary, checked on SpecTables.         *)
(***************************************************************************)
\* n / d as a number, and as a percentage
Ratio(n, d) == Q(n, d)

Percent(n, d) == Mul(Q(n, d), R(100))

\* the value reported for a denominator: 0 when it is 0, the quotient otherwise
Reported(value, denominator, quotient) ==
    /\ IsFinite(value)
    /\ denominator = 0 => value = R(0)
    /\ denominator # 0 => value = quotient

\* the revenue of the year before row i of the historical table
RevenueBefore(rows, i) == IF i = 1 THEN 0 ELSE rows[i - 1].revenue

\* C18: average order value, average price, percent of total and year-over-year
\* change are the quotient when their denominator (orders, units, total revenue,
\* previous revenue) is not 0, and 0 when it is 0: never NaN, never Infinity.
C18_ZeroDenominatorReportsZero ==
    /\ Called("calculateSummary") =>
          Reported(call.value.avgOrderValue, call.value.totalOrders,
                   Ratio(call.value.totalRevenue, call.value.totalOrders))
    /\ Called("updateHistoricalTable") =>
          \A i \in 1..Len(call.value) :
             /\ Reported(call.value[i].avgOrderValue, call.value[i].orders,
                         Ratio(call.value[i].revenue, call.value[i].orders))
             /\ Reported(call.value[i].growth, RevenueBefore(call.value, i),
                         Percent(call.value[i].revenue - RevenueBefore(call.value, i),
                                 RevenueBefore(call.value, i)))
    /\ Called("updateProductTable") =>
          \A i \in 1..Len(call.value) :
             /\ Reported(call.value[i].avgPrice, call.value[i].units,
                         Ratio(call.value[i].revenue, call.value[i].units))
             /\ Reported(call.value[i].percentOfTotal, call.value[i].totalRevenue,
                         Percent(call.value[i].revenue, call.value[i].totalRevenue))
             /\ Reported(call.value[i].yoyChange, call.value[i].prevRevenue,
                         Percent(call.value[i].revenue - call.value[i].prevRevenue,
                                 call.value[i].prevRevenue))

\* the product table has a row with no units and no revenue the year before
C18_RowWithoutUnitsAndPreviousYear ==
    /\ Called("updateProductTable")
    /\ \E i \in 1..Len(call.value) :
          /\ call.value[i].units = 0 /\ call.value[i].avgPrice = R(0)
          /\ call.value[i].prevRevenue = 0 /\ call.value[i].yoyChange = R(0)

\* the records a top-growers call selects from: those of the year, or all
TopSelection ==
    IF Called("createTopGrowersChart") THEN filterDataByYear(series, call.year)
    ELSE IF call.year = 0 THEN series
    ELSE OfCalendarYear(series, call.year)

\* rows, of names and revenues, are the n growers of largest total revenue of d:
\* min(n, number of growers) growers, each with its total revenue, in non-increasing
\* order, and no grower left out with more revenue than one included
IsTopOf(names, revenues, n, d) ==
    /\ Len(names) = (IF n < Cardinality(GrowerSet(d)) THEN n ELSE Cardinality(GrowerSet(d)))
    /\ \A i \in 1..Len(names) :
          /\ names[i] \in GrowerSet(d)
          /\ revenues[i] = SumAmount(OfGrower(d, names[i]))
          /\ \A j \in 1..Len(names) : names[i] = names[j] => i = j
    /\ \A i \in 1..(Len(names) - 1) : revenues[i] >= revenues[i + 1]
    /\ \A g \in GrowerSet(d) \ { names[i] : i \in 1..Len(names) } :
          \A i \in 1..Len(names) : SumAmount(OfGrower(d, g)) <= revenues[i]

\* C25: a top-N result, of GET /api/growers/top/:count for N = count and of the
\* top-10 chart of the dashboard, holds min(N, number of growers) growers in
\* non-increasing order of total revenue, and no grower left out has a strictly
\* greater total revenue than a grower included.
C25_TopGrowersByRevenue ==
    /\ Called("GET /api/growers/top") =>
          IsTopOf([i \in 1..Len(call.value) |-> call.value[i].grower_name],
                  [i \in 1..Len(call.value) |-> call.value[i].totalRevenue],
                  parseInt(call.count).value, TopSelection)
    /\ Called("createTopGrowersChart") =>
          /\ \A i \in 1..Len(call.value) : ~call.value[i].text
          /\ IsTopOf([i \in 1..Len(call.value) |-> call.value[i].name],
                     [i \in 1..Len(call.value) |-> call.value[i].revenue],
                     TopChartCount, TopSelection)

\* C25, reached: /api/growers/top/0 has answered with three growers
C25_TopZeroAnswersThree ==
    /\ Called("GET /api/growers/top")
    /\ call.count = "0"
    /\ Len(call.value) = 3

\* C25, reached: the chart shows a value that is a text, not the revenue of the
\* grower, above a grower with revenue
C25_ChartValueIsText ==
    /\ Called("createTopGrowersChart")
    /\ Len(call.value) = 2
    /\ call.value[1].text /\ ~call.value[2].text /\ call.value[2].revenue > 0

(***************************************************************************)
(* The retention response while other requests change the store, on Spec.  *)
(***************************************************************************)
\* C28: within one response of GET /api/growers/retention/analysis, for every two
\* consecutive entries, of the years Y and Y+1, lostGrowers(Y+1) +
\* returningGrowers(Y+1) is totalGrowers(Y), also when records are inserted or
\* deleted by other requests between the awaited queries of the handler.
C28_ConsecutiveEntriesAgree ==
    RetentionAnswered =>
        \A k \in 1..(Len(res.retention) - 1) :
            res.retention[k + 1].lostGrowers + res.retention[k + 1].returningGrowers
                = res.retention[k].totalGrowers

\* C28, reached: the response counts one grower in a year and, the collection
\* having been emptied before the next iteration asked for that year again, no
\* grower lost or returning in the year after it
C28_PreviousYearReadAgain ==
    /\ RetentionAnswered
    /\ collection = <<>>
    /\ \E k \in 1..(Len(res.retention) - 1) :
          /\ res.retention[k].totalGrowers = 1
          /\ res.retention[k + 1].lostGrowers = 0
          /\ res.retention[k + 1].returningGrowers = 0

(***************************************************************************)
(* The CSV import flow and the callback of the FileReader, on SpecIngest.  *)
(***************************************************************************)
\* a step of importCSVData or cancelCSVImport that empties a pending set
EmptiesPendingCSV == pendingCSVData # <<>> /\ pendingCSVData' = <<>>

\* C29: importCSVData appends exactly the parsed records of the pending upload to
\* the store, once, and empties the pending set; cancelCSVImport leaves the store
\* as it is; and after a cancel or an import, importCSVData adds a record only
\* if a file was chosen since (the csv-file input, which both reset, has a value
\* again), however the onload of the reader falls between them.
C29_ImportOnceCancelNone ==
    [][/\ EmptiesPendingCSV => (data' = data \/ data' = data \o pendingCSVData)
       /\ (EmptiesPendingCSV /\ data' # data) => csvFile = ChosenFile]_vars

\* C29, reached: no file has been chosen since the cancel or the import, nothing
\* is being read, and the records of the file read meanwhile are pending
C29_PendingWithoutFile ==
    /\ program = "browser"
    /\ csvFile = NoFileChosen
    /\ reader = {}
    /\ data = <<>>
    /\ Len(pendingCSVData) = 2

(***************************************************************************)
(* Claims about syncToServer, checked on SpecSync.                         *)
(***************************************************************************)
\* the number of server records that hold the six fields of the local record d
TimesStored(d) ==
    Cardinality({ i \in 1..Len(StoreRead) : BodyOf(StoreRead[i]) = BodyOf(d) })

\* the first syncToServer has returned and every record of localData was added
FirstSyncSucceeded ==
    /\ call.pc = "returned" /\ call.n = 1
    /\ Len(call.results) = Len(data)
    /\ \A i \in 1..Len(data) : TimesStored(data[i]) = 1

\* C26: syncToServer is idempotent: after a syncToServer(localData) that added every
\* record, the next syncToServer with the same localData finds no record to send
\* and leaves the server store as it is, and no local record is ever stored twice
\* on the server.
C26_SyncIsIdempotent ==
    /\ [](\A i \in 1..Len(data) : TimesStored(data[i]) <= 1)
    /\ [][(FirstSyncSucceeded /\ call'.n = 2)
             => /\ call'.pc = "adding"
                /\ call'.newRecords = <<>>
                /\ UNCHANGED <<inMemoryData, collection>>]_vars

\* C26, reached: the second call has returned; both calls sent the two local records
\* and the server holds each of them twice
C26_EveryRecordStoredTwice ==
    /\ program = "sync"
    /\ call.pc = "returned" /\ call.n = 2
    /\ Len(data) = 2 /\ call.value.synced = 2
    /\ \A i \in 1..Len(data) : TimesStored(data[i]) = 2

\* C27: the synced count syncToServer returns is the number of records that were
\* added to the server store during the call, the records addRecords collected,
\* also when requests of addRecord fail.
C27_SyncedCountsAdded ==
    (program = "sync" /\ call.pc = "returned") =>
        /\ call.value.synced = Len(call.results)
        /\ call.n = 1 => call.value.synced = Len(StoreRead)

\* C27, reached: the first call returns synced 2 and the server, which refused one
\* record and was not reached by the other, holds nothing
C27_SyncedTwoAddedNone ==
    /\ program = "sync"
    /\ call.pc = "returned" /\ call.n = 1
    /\ call.value.synced = 2
    /\ ~call.isOnline
    /\ res.status = 400
    /\ StoreRead = <<>>

(***************************************************************************)
(* The product mix, checked on SpecTables.                                 *)
(***************************************************************************)
\* the transactions updateProductTable(year) selects; year 0 is 'all'
SelectedForProducts(d, year) ==
    IF year = 0 THEN d ELSE FilterByYear(d, year, tzBehindUTC)

AmountsNotNegative(d) == \A i \in 1..Len(d) : d[i].amount >= 0

RECURSIVE SumOverProducts(_, _)
SumOverProducts(byProduct, products) ==
    IF products = {} THEN 0
    ELSE LET p == CHOOSE q \in products : TRUE
         IN byProduct[p].revenue + SumOverProducts(byProduct, products \ { p })

\* C30: in the product mix the revenues of the categories add up to the total
\* revenue of the selected transactions, of all years or of one year, also for a
\* store with records whose product is outside the list of categories: in the
\* product table, in the product chart of the overview, and in the answer of
\* GET /api/analytics/by-product.  Stores of amounts >= 0 are considered, so that
\* no category is hidden for a revenue that is not positive.
C30_ProductMixSumsToTotal ==
    (program = "tables" /\ AmountsNotNegative(series)) =>
        /\ Called("updateProductTable") =>
              SumRevenue(call.value) = SumAmount(SelectedForProducts(series, call.year))
        /\ Called("createOverviewProductChart") =>
              SumRevenue(call.value) = SumAmount(series)
        /\ Called("GET /api/analytics/by-product") =>
              SumOverProducts(call.value, DOMAIN call.value) = SumAmount(series)

\* C30, reached: the product table of all years for a store of revenue 7, of which
\* 2 for a Widget, has the one row of Corn Seed, 5, and reports 100% for it
C30_WidgetRevenueLeftOut ==
    /\ Called("updateProductTable")
    /\ call.year = 0
    /\ SumAmount(series) = 7
    /\ \E i \in 1..Len(series) : series[i].product = "Widget" /\ series[i].amount = 2
    /\ Len(call.value) = 1
    /\ call.value[1].revenue = 5
    /\ call.value[1].totalRevenue = 5
====
